---- MODULE Spec2Model ----
(***************************************************************************)
(* State-machine model of the blog backend's authentication core:          *)
(* AuthService (src/src/services/auth.service.ts), the Access Gate         *)
(* middleware (src/src/middleware/auth.middleware.ts) and the auth routes  *)
(* (src/src/routes/auth.routes.ts).                                        *)
(*                                                                         *)
(* Strings are sequences of one-character strings, so that lengths,        *)
(* prefixes and character classes are computed, not assumed.  The          *)
(* messages of the source are Chinese; they are given here in English.     *)
(***************************************************************************)
EXTENDS Integers, Sequences, FiniteSets, TLC

VARIABLES
    users,   \* the User table: a sequence of account records, id = position
    clock,   \* the wall clock, in seconds (Date.now() / 1000)
    held,    \* the token a client kept from an earlier register/login response
    articles, \* the Article table: a sequence of article records
    serial,  \* the number of article ids handed out so far
    passwords, \* history: per account, the password last set and those before
    last,    \* the call in flight: the request, its response and its effects
    racing   \* calls that run side by side: the position of each

vars == <<users, clock, held, articles, serial, passwords, last, racing>>

(***************************************************************************)
(* Bounds of the model.                                                    *)
(***************************************************************************)
MaxUsers == 2
MaxRacers == 2

(***************************************************************************)
(* Program constants.                                                      *)
(***************************************************************************)
JWT_SECRET == "your-super-secret-jwt-key-change-this-in-production"
\* '7d' as jsonwebtoken reads it: seven days, in seconds
JWT_EXPIRES_IN == 7 * 86400
USERNAME_MIN == 3
USERNAME_MAX == 20
DISPLAYNAME_MIN == 2
DISPLAYNAME_MAX == 50
PASSWORD_MIN == 6
PASSWORD_MAX == 100
LOGIN_PASSWORD_MIN == 1
BEARER_LEN == 7
BIO_MAX == 500
BCRYPT_ROUNDS == 12
\* bcrypt keys the cipher with 18 words of 4 bytes: input past that is ignored
BCRYPT_KEY_BYTES == 18 * 4

Roles == {"USER", "EDITOR", "ADMIN"}

(***************************************************************************)
(* Strings.                                                                *)
(***************************************************************************)
Rep(c, n) == [i \in 1..n |-> c]

Take(s, n) == SubSeq(s, 1, IF Len(s) < n THEN Len(s) ELSE n)

Drop(s, n) == SubSeq(s, n + 1, Len(s))

StartsWith(s, p) == Len(s) >= Len(p) /\ SubSeq(s, 1, Len(p)) = p

Lower == {"a","b","c","d","e","f","g","h","i","j","k","l","m",
          "n","o","p","q","r","s","t","u","v","w","x","y","z"}
Upper == {"A","B","C","D","E","F","G","H","I","J","K","L","M",
          "N","O","P","Q","R","S","T","U","V","W","X","Y","Z"}
Digit == {"0","1","2","3","4","5","6","7","8","9"}

\* /^[a-zA-Z0-9_]+$/
WordChars == Lower \cup Upper \cup Digit \cup {"_"}

\* z.string().email(): one "@", a non-empty local part, and a domain that
\* ends in a dot followed by at least two letters.
IsEmail(s) ==
    LET ats == {i \in 1..Len(s) : s[i] = "@"} IN
    /\ Cardinality(ats) = 1
    /\ LET at == CHOOSE i \in ats : TRUE IN
       /\ at > 1
       /\ s[1] # "."
       /\ \E dot \in (at + 2)..(Len(s) - 2) :
            /\ s[dot] = "."
            /\ \A k \in (dot + 1)..Len(s) : s[k] \in Lower \cup Upper
            /\ \A k \in (at + 1)..(dot - 1) :
                 s[k] \in Lower \cup Upper \cup Digit \cup {"-", "."}

(***************************************************************************)
(* Input alphabets of the model: the strings the calls are made with.      *)
(***************************************************************************)
EmailA == <<"a","@","x",".","c","o">>
EmailB == <<"b","@","x",".","c","o">>
EmailBad == <<"a","x",".","c","o">>
Emails == {EmailA, EmailB, EmailBad}

UserAnn == <<"a","n","n">>
UserBob == <<"b","o","b">>
UserShort == <<"a","l">>
UserDash == <<"a","-","b">>

NameAl == <<"A","l">>
NameBo == <<"B","o">>
NameOne == <<"A">>

PwSecret == <<"s","e","c","r","e","t">>
PwShort == <<"a","b","c">>
PwEmpty == << >>
\* two passwords of 73 characters that differ only in their last character
PwLong1 == Rep("z", BCRYPT_KEY_BYTES) \o <<"1">>
PwLong2 == Rep("z", BCRYPT_KEY_BYTES) \o <<"2">>
PwHuge == Rep("y", PASSWORD_MAX + 1)
Passwords == {PwSecret, PwLong1, PwLong2, PwShort, PwEmpty}

Salts == {"salt1", "salt2"}

(***************************************************************************)
(* Credential Manager: bcrypt.                                             *)
(***************************************************************************)
NUL == "\\0"

\* The digest bcrypt computes from a password under a salt: a function of
\* the salt, the cost and the first 72 bytes of the NUL-terminated password.
BcryptDigest(password, salt) ==
    [salt |-> salt, rounds |-> BCRYPT_ROUNDS,
     digest |-> Take(password \o <<NUL>>, BCRYPT_KEY_BYTES)]

hashPassword(password, salt) == BcryptDigest(password, salt)

verifyPassword(password, hash) == BcryptDigest(password, hash.salt) = hash

(***************************************************************************)
(* Values shared by the layers.                                            *)
(***************************************************************************)
\* JavaScript's undefined / null, for a field that holds a string, a
\* timestamp or an object
Undefined == "undefined"
NullStr == <<"null">>
NullTime == 0 - 1
NoUser == [undefined |-> TRUE]
NoJwt == [undefined |-> TRUE]

\* AuthError (message, code, field)
AuthError(message, code, field) ==
    [name |-> "AuthError", message |-> message, code |-> code, field |-> field]

\* z.ZodError, with the issues the schema found
ZodError(issues) == [name |-> "ZodError", issues |-> issues]

\* Any other thrown value (a Prisma error, ...)
OtherError(what) == [name |-> what]

Ok(value) == [ok |-> TRUE, value |-> value]
Throw(error) == [ok |-> FALSE, error |-> error]

(***************************************************************************)
(* Session Token Authority: jsonwebtoken.                                  *)
(*                                                                         *)
(* A token string is the text around an encoded JWT: text is the string's  *)
(* characters that are not part of a well-formed JWT, jwt the decoded      *)
(* content of the JWT in it (header, payload and the key that signed it).  *)
(***************************************************************************)
TokenString(text, jwt) == [text |-> text, jwt |-> jwt]

\* jwt.sign(payload, secret, options): the claims of the payload, iat, the
\* exp that expiresIn asks for, and iss/aud only if the options name them.
JwtSign(payload, secret, options, now) ==
    TokenString(<< >>,
        [userId |-> payload.userId, email |-> payload.email, role |-> payload.role,
         iat |-> now, exp |-> now + options.expiresIn,
         iss |-> options.issuer, aud |-> options.audience,
         key |-> secret])

\* jwt.verify without its expiry check (ignoreExpiration)
JwtVerify_IgnoreExpiration(token, secret, options, now) ==
    IF token.text # << >> \/ token.jwt = NoJwt
    THEN Throw(OtherError("JsonWebTokenError: jwt malformed"))
    ELSE LET jwt == token.jwt IN
         IF jwt.key # secret
         THEN Throw(OtherError("JsonWebTokenError: invalid signature"))
         ELSE IF jwt.aud # options.audience
         THEN Throw(OtherError("JsonWebTokenError: jwt audience invalid"))
         ELSE IF jwt.iss # options.issuer
         THEN Throw(OtherError("JsonWebTokenError: jwt issuer invalid"))
         ELSE Ok([userId |-> jwt.userId, email |-> jwt.email, role |-> jwt.role,
                  iat |-> jwt.iat, exp |-> jwt.exp, iss |-> jwt.iss, aud |-> jwt.aud])

\* jwt.verify(token, secret, {issuer, audience}): the decoded payload, or an
\* error for a malformed token, a bad signature, an expiry that has passed
\* or an audience or issuer that is not the one required.
JwtVerify(token, secret, options, now) ==
    IF token.text # << >> \/ token.jwt = NoJwt
    THEN Throw(OtherError("JsonWebTokenError: jwt malformed"))
    ELSE LET jwt == token.jwt IN
         IF jwt.key # secret
         THEN Throw(OtherError("JsonWebTokenError: invalid signature"))
         ELSE IF now >= jwt.exp
         THEN Throw(OtherError("TokenExpiredError: jwt expired"))
         ELSE IF jwt.aud # options.audience
         THEN Throw(OtherError("JsonWebTokenError: jwt audience invalid"))
         ELSE IF jwt.iss # options.issuer
         THEN Throw(OtherError("JsonWebTokenError: jwt issuer invalid"))
         ELSE Ok([userId |-> jwt.userId, email |-> jwt.email, role |-> jwt.role,
                  iat |-> jwt.iat, exp |-> jwt.exp, iss |-> jwt.iss, aud |-> jwt.aud])

\* AuthService.generateToken
generateToken(payload, now) ==
    JwtSign(payload, JWT_SECRET,
            [expiresIn |-> JWT_EXPIRES_IN, issuer |-> Undefined, audience |-> Undefined],
            now)

\* verifyToken reporting an expired token under a kind of its own
verifyToken_TellsExpired(token, now) ==
    LET r == JwtVerify(token, JWT_SECRET,
                       [issuer |-> "blog-backend", audience |-> "blog-frontend"], now)
    IN IF r.ok THEN r
       ELSE IF r.error.name = "TokenExpiredError: jwt expired"
       THEN Throw(AuthError("Token expired", "TOKEN_EXPIRED", Undefined))
       ELSE Throw(AuthError("Token invalid or expired", "INVALID_TOKEN", Undefined))

\* AuthService.verifyToken
verifyToken(token, now) ==
    LET r == JwtVerify(token, JWT_SECRET,
                       [issuer |-> "blog-backend", audience |-> "blog-frontend"], now)
    IN IF r.ok THEN r
       ELSE Throw(AuthError("Token invalid or expired", "INVALID_TOKEN", Undefined))

(***************************************************************************)
(* Validation schemas (zod): the issues each schema reports, in order.     *)
(***************************************************************************)
Issue(field, message) == [field |-> field, message |-> message]

When(cond, issue) == IF cond THEN <<issue>> ELSE << >>

registerSchema(data) ==
    When(~IsEmail(data.email), Issue("email", "Please enter a valid email address"))
    \o When(Len(data.username) < USERNAME_MIN, Issue("username", "Username needs at least 3 characters"))
    \o When(Len(data.username) > USERNAME_MAX, Issue("username", "Username cannot exceed 20 characters"))
    \o When(\E i \in 1..Len(data.username) : data.username[i] \notin WordChars
              \/ Len(data.username) = 0,
            Issue("username", "Username may only contain letters, digits and underscores"))
    \o When(Len(data.displayName) < DISPLAYNAME_MIN, Issue("displayName", "Display name needs at least 2 characters"))
    \o When(Len(data.displayName) > DISPLAYNAME_MAX, Issue("displayName", "Display name cannot exceed 50 characters"))
    \o When(Len(data.password) < PASSWORD_MIN, Issue("password", "Password needs at least 6 characters"))
    \o When(Len(data.password) > PASSWORD_MAX, Issue("password", "Password cannot exceed 100 characters"))
    \o When(data.agreeToTerms # TRUE, Issue("agreeToTerms", "Please agree to the user agreement"))

loginSchema(data) ==
    When(~IsEmail(data.email), Issue("email", "Please enter a valid email address"))
    \o When(Len(data.password) < LOGIN_PASSWORD_MIN, Issue("password", "Please enter the password"))

changePasswordSchema(data) ==
    When(Len(data.oldPassword) < LOGIN_PASSWORD_MIN, Issue("oldPassword", "Please enter the current password"))
    \o When(Len(data.newPassword) < PASSWORD_MIN, Issue("newPassword", "New password needs at least 6 characters"))
    \o When(Len(data.newPassword) > PASSWORD_MAX, Issue("newPassword", "New password cannot exceed 100 characters"))

\* The keys updateProfileSchema knows; z.object drops every other key
ProfileKeys == {"displayName", "bio", "avatar"}

\* z.string().url(): what new URL() accepts, a scheme of letters and a colon
\* before the rest
IsUrl(s) ==
    \E i \in 2..Len(s) :
        /\ s[i] = ":"
        /\ \A j \in 1..(i - 1) : s[j] \in Lower \cup Upper

\* a key that is absent is not checked (.optional()); avatar is a union of a
\* URL and the empty string, whose failure zod reports as "Invalid input"
updateProfileSchema(data) ==
    LET has(k) == k \in DOMAIN data IN
    When(has("displayName") /\ Len(data.displayName) < DISPLAYNAME_MIN,
         Issue("displayName", "Display name needs at least 2 characters"))
    \o When(has("displayName") /\ Len(data.displayName) > DISPLAYNAME_MAX,
            Issue("displayName", "Display name cannot exceed 50 characters"))
    \o When(has("bio") /\ Len(data.bio) > BIO_MAX,
            Issue("bio", "Bio cannot exceed 500 characters"))
    \o When(has("avatar") /\ data.avatar # << >> /\ ~IsUrl(data.avatar),
            Issue("avatar", "Invalid input"))

\* a parse that lets unknown keys through (passthrough)
updateProfileParsed_Passthrough(data) == data

\* updateProfileSchema.parse(data), for data that passes: the known keys only
updateProfileParsed(data) == [k \in DOMAIN data \cap ProfileKeys |-> data[k]]

(***************************************************************************)
(* The store (prisma.user).                                                *)
(***************************************************************************)
\* prisma.user.findUnique({where: {email}}) and its siblings: the ids found
findByEmail(store, email) == {i \in 1..Len(store) : store[i].email = email}
findByUsername(store, username) == {i \in 1..Len(store) : store[i].username = username}
findById(store, id) == {i \in 1..Len(store) : store[i].id = id}

\* prisma.user.create({data}): the row created, the columns not given
\* taking their defaults
createUser(store, data, now) ==
    [id |-> Len(store) + 1,
     email |-> data.email, username |-> data.username,
     displayName |-> data.displayName, passwordHash |-> data.passwordHash,
     role |-> data.role,
     bio |-> NullStr, avatar |-> NullStr, isEmailVerified |-> FALSE,
     lastLoginAt |-> NullTime, updatedAt |-> now]

\* excludePassword returning the row as it is
excludePassword_Keep(user) == user

\* a store whose create does not enforce uniqueness
storeCreate_NoIndex(store, data, now) == Ok(createUser(store, data, now))

\* prisma.user.create under the unique indexes of email and username: the
\* row, or the error the store raises for a duplicate
storeCreate(store, data, now) ==
    IF findByEmail(store, data.email) # {} \/ findByUsername(store, data.username) # {}
    THEN Throw(OtherError("PrismaClientKnownRequestError: P2002"))
    ELSE Ok(createUser(store, data, now))

\* AuthService.excludePassword
excludePassword(user) == [f \in (DOMAIN user) \ {"passwordHash"} |-> user[f]]

(***************************************************************************)
(* Account Service.  Each operation is given the store, its input, the     *)
(* clock and (where it hashes) the salt bcrypt draws, and yields its       *)
(* result (a value, or the error thrown) and the store it leaves.          *)
(***************************************************************************)
Outcome(result, store) == [result |-> result, users |-> store]

\* the end of register reporting the store's refusal of a duplicate as the
\* domain error of the email check
registerCreate_MapsDuplicate(store, data, salt, now) ==
    LET passwordHash == hashPassword(data.password, salt)
        created == storeCreate(store,
                      [email |-> data.email, username |-> data.username,
                       displayName |-> data.displayName,
                       passwordHash |-> passwordHash, role |-> "USER"], now)
    IN IF ~created.ok
       THEN Outcome(Throw(AuthError("This email is already registered",
                                    "EMAIL_EXISTS", "email")), store)
       ELSE LET user == created.value
                token == generateToken([userId |-> user.id, email |-> user.email,
                                        role |-> user.role], now)
            IN Outcome(Ok([user |-> excludePassword(user), token |-> token]),
                       Append(store, user))

\* AuthService.register from its hashing on: hash, create, issue the token;
\* what the store throws is not caught
registerCreate(store, data, salt, now) ==
    LET passwordHash == hashPassword(data.password, salt)
        created == storeCreate(store,
                      [email |-> data.email, username |-> data.username,
                       displayName |-> data.displayName,
                       passwordHash |-> passwordHash, role |-> "USER"], now)
    IN IF ~created.ok
       THEN Outcome(Throw(created.error), store)
       ELSE LET user == created.value
                token == generateToken([userId |-> user.id, email |-> user.email,
                                        role |-> user.role], now)
            IN Outcome(Ok([user |-> excludePassword(user), token |-> token]),
                       Append(store, user))

\* register looking the email and username up before it validates
register_ChecksFirst(store, data, salt, now) ==
    IF findByEmail(store, data.email) # {}
    THEN Outcome(Throw(AuthError("This email is already registered",
                                 "EMAIL_EXISTS", "email")), store)
    ELSE IF findByUsername(store, data.username) # {}
    THEN Outcome(Throw(AuthError("This username is already taken",
                                 "USERNAME_EXISTS", "username")), store)
    ELSE IF registerSchema(data) # << >>
    THEN Outcome(Throw(ZodError(registerSchema(data))), store)
    ELSE LET passwordHash == hashPassword(data.password, salt)
             user == createUser(store,
                        [email |-> data.email, username |-> data.username,
                         displayName |-> data.displayName,
                         passwordHash |-> passwordHash, role |-> "USER"], now)
             token == generateToken([userId |-> user.id, email |-> user.email,
                                     role |-> user.role], now)
         IN Outcome(Ok([user |-> excludePassword(user), token |-> token]),
                    Append(store, user))

\* register with its two existence checks in the other order
register_UsernameFirst(store, data, salt, now) ==
    IF registerSchema(data) # << >>
    THEN Outcome(Throw(ZodError(registerSchema(data))), store)
    ELSE IF findByUsername(store, data.username) # {}
    THEN Outcome(Throw(AuthError("This username is already taken",
                                 "USERNAME_EXISTS", "username")), store)
    ELSE IF findByEmail(store, data.email) # {}
    THEN Outcome(Throw(AuthError("This email is already registered",
                                 "EMAIL_EXISTS", "email")), store)
    ELSE LET passwordHash == hashPassword(data.password, salt)
             user == createUser(store,
                        [email |-> data.email, username |-> data.username,
                         displayName |-> data.displayName,
                         passwordHash |-> passwordHash, role |-> "USER"], now)
             token == generateToken([userId |-> user.id, email |-> user.email,
                                     role |-> user.role], now)
         IN Outcome(Ok([user |-> excludePassword(user), token |-> token]),
                    Append(store, user))

\* register writing over the account that already has the email
register_Upserts(store, data, salt, now) ==
    IF registerSchema(data) # << >>
    THEN Outcome(Throw(ZodError(registerSchema(data))), store)
    ELSE IF findByEmail(store, data.email) # {}
    THEN LET id == CHOOSE i \in findByEmail(store, data.email) : TRUE
             user == [store[id] EXCEPT !.username = data.username,
                                       !.displayName = data.displayName,
                                       !.passwordHash = hashPassword(data.password, salt)]
             token == generateToken([userId |-> user.id, email |-> user.email,
                                     role |-> user.role], now)
         IN Outcome(Ok([user |-> excludePassword(user), token |-> token]),
                    [store EXCEPT ![id] = user])
    ELSE IF findByUsername(store, data.username) # {}
    THEN Outcome(Throw(AuthError("This username is already taken",
                                 "USERNAME_EXISTS", "username")), store)
    ELSE LET passwordHash == hashPassword(data.password, salt)
             user == createUser(store,
                        [email |-> data.email, username |-> data.username,
                         displayName |-> data.displayName,
                         passwordHash |-> passwordHash, role |-> "USER"], now)
             token == generateToken([userId |-> user.id, email |-> user.email,
                                     role |-> user.role], now)
         IN Outcome(Ok([user |-> excludePassword(user), token |-> token]),
                    Append(store, user))

\* AuthService.register
register(store, data, salt, now) ==
    IF registerSchema(data) # << >>
    THEN Outcome(Throw(ZodError(registerSchema(data))), store)
    ELSE IF findByEmail(store, data.email) # {}
    THEN Outcome(Throw(AuthError("This email is already registered",
                                 "EMAIL_EXISTS", "email")), store)
    ELSE IF findByUsername(store, data.username) # {}
    THEN Outcome(Throw(AuthError("This username is already taken",
                                 "USERNAME_EXISTS", "username")), store)
    ELSE LET passwordHash == hashPassword(data.password, salt)
             user == createUser(store,
                        [email |-> data.email, username |-> data.username,
                         displayName |-> data.displayName,
                         passwordHash |-> passwordHash, role |-> "USER"], now)
             token == generateToken([userId |-> user.id, email |-> user.email,
                                     role |-> user.role], now)
         IN Outcome(Ok([user |-> excludePassword(user), token |-> token]),
                    Append(store, user))

\* login stamping the last-login time before it verifies the password
login_StampsFirst(store, data, now) ==
    IF loginSchema(data) # << >>
    THEN Outcome(Throw(ZodError(loginSchema(data))), store)
    ELSE IF findByEmail(store, data.email) = {}
    THEN Outcome(Throw(AuthError("Wrong email or password",
                                 "INVALID_CREDENTIALS", Undefined)), store)
    ELSE LET id == CHOOSE i \in findByEmail(store, data.email) : TRUE
             user == store[id]
             updatedUser == [user EXCEPT !.lastLoginAt = now]
             stamped == [store EXCEPT ![id] = updatedUser]
         IN IF ~verifyPassword(data.password, user.passwordHash)
            THEN Outcome(Throw(AuthError("Wrong email or password",
                                         "INVALID_CREDENTIALS", Undefined)), stamped)
            ELSE LET token == generateToken([userId |-> user.id, email |-> user.email,
                                             role |-> user.role], now)
                 IN Outcome(Ok([user |-> excludePassword(updatedUser), token |-> token]),
                            stamped)

\* login telling an unknown email from a wrong password
login_TellsApart(store, data, now) ==
    IF loginSchema(data) # << >>
    THEN Outcome(Throw(ZodError(loginSchema(data))), store)
    ELSE IF findByEmail(store, data.email) = {}
    THEN Outcome(Throw(AuthError("No account with this email",
                                 "INVALID_CREDENTIALS", "email")), store)
    ELSE LET id == CHOOSE i \in findByEmail(store, data.email) : TRUE
             user == store[id]
         IN IF ~verifyPassword(data.password, user.passwordHash)
            THEN Outcome(Throw(AuthError("Wrong email or password",
                                         "INVALID_CREDENTIALS", Undefined)), store)
            ELSE LET updatedUser == [user EXCEPT !.lastLoginAt = now]
                     token == generateToken([userId |-> user.id, email |-> user.email,
                                             role |-> user.role], now)
                 IN Outcome(Ok([user |-> excludePassword(updatedUser), token |-> token]),
                            [store EXCEPT ![id] = updatedUser])

\* login whose write names no row and so stamps every stored account
login_StampsEvery(store, data, now) ==
    IF loginSchema(data) # << >>
    THEN Outcome(Throw(ZodError(loginSchema(data))), store)
    ELSE IF findByEmail(store, data.email) = {}
    THEN Outcome(Throw(AuthError("Wrong email or password",
                                 "INVALID_CREDENTIALS", Undefined)), store)
    ELSE LET id == CHOOSE i \in findByEmail(store, data.email) : TRUE
             user == store[id]
         IN IF ~verifyPassword(data.password, user.passwordHash)
            THEN Outcome(Throw(AuthError("Wrong email or password",
                                         "INVALID_CREDENTIALS", Undefined)), store)
            ELSE LET updatedUser == [user EXCEPT !.lastLoginAt = now]
                     token == generateToken([userId |-> user.id, email |-> user.email,
                                             role |-> user.role], now)
                 IN Outcome(Ok([user |-> excludePassword(updatedUser), token |-> token]),
                            [i \in DOMAIN store |->
                                [store[i] EXCEPT !.lastLoginAt = now]])

\* AuthService.login
login(store, data, now) ==
    IF loginSchema(data) # << >>
    THEN Outcome(Throw(ZodError(loginSchema(data))), store)
    ELSE IF findByEmail(store, data.email) = {}
    THEN Outcome(Throw(AuthError("Wrong email or password",
                                 "INVALID_CREDENTIALS", Undefined)), store)
    ELSE LET id == CHOOSE i \in findByEmail(store, data.email) : TRUE
             user == store[id]
         IN IF ~verifyPassword(data.password, user.passwordHash)
            THEN Outcome(Throw(AuthError("Wrong email or password",
                                         "INVALID_CREDENTIALS", Undefined)), store)
            ELSE LET updatedUser == [user EXCEPT !.lastLoginAt = now]
                     token == generateToken([userId |-> user.id, email |-> user.email,
                                             role |-> user.role], now)
                 IN Outcome(Ok([user |-> excludePassword(updatedUser), token |-> token]),
                            [store EXCEPT ![id] = updatedUser])

\* getCurrentUser answering with the oldest account when the id matches none
getCurrentUser_FallsBack(store, userId) ==
    IF findById(store, userId) = {} /\ store = << >>
    THEN Outcome(Throw(AuthError("User does not exist", "USER_NOT_FOUND", Undefined)),
                 store)
    ELSE LET id == IF findById(store, userId) = {} THEN 1
                   ELSE CHOOSE i \in findById(store, userId) : TRUE
         IN Outcome(Ok(excludePassword(store[id])), store)

\* AuthService.getCurrentUser
getCurrentUser(store, userId) ==
    IF findById(store, userId) = {}
    THEN Outcome(Throw(AuthError("User does not exist", "USER_NOT_FOUND", Undefined)),
                 store)
    ELSE LET id == CHOOSE i \in findById(store, userId) : TRUE
         IN Outcome(Ok(excludePassword(store[id])), store)

\* updateProfile writing null for the profile fields the body leaves out
updateProfile_ResetsUnsupplied(store, userId, data, now) ==
    IF updateProfileSchema(data) # << >>
    THEN Outcome(Throw(ZodError(updateProfileSchema(data))), store)
    ELSE IF findById(store, userId) = {}
    THEN Outcome(Throw(OtherError("PrismaClientKnownRequestError: P2025")), store)
    ELSE LET validatedData == updateProfileParsed(data)
             id == CHOOSE i \in findById(store, userId) : TRUE
             user == store[id]
             updatedUser ==
                 [f \in DOMAIN user |->
                     IF f \in DOMAIN validatedData THEN validatedData[f]
                     ELSE IF f \in {"bio", "avatar"} THEN NullStr
                     ELSE IF f = "updatedAt" THEN now
                     ELSE user[f]]
         IN Outcome(Ok(excludePassword(updatedUser)),
                    [store EXCEPT ![id] = updatedUser])

\* AuthService.updateProfile; prisma.user.update throws when no row has the id
updateProfile(store, userId, data, now) ==
    IF updateProfileSchema(data) # << >>
    THEN Outcome(Throw(ZodError(updateProfileSchema(data))), store)
    ELSE IF findById(store, userId) = {}
    THEN Outcome(Throw(OtherError("PrismaClientKnownRequestError: P2025")), store)
    ELSE LET validatedData == updateProfileParsed(data)
             id == CHOOSE i \in findById(store, userId) : TRUE
             user == store[id]
             updatedUser ==
                 [f \in DOMAIN user |->
                     IF f \in DOMAIN validatedData THEN validatedData[f]
                     ELSE IF f = "updatedAt" THEN now
                     ELSE user[f]]
         IN Outcome(Ok(excludePassword(updatedUser)),
                    [store EXCEPT ![id] = updatedUser])

\* changePassword without the check of the old password
changePassword_NoOldCheck(store, userId, data, salt, now) ==
    IF changePasswordSchema(data) # << >>
    THEN Outcome(Throw(ZodError(changePasswordSchema(data))), store)
    ELSE IF findById(store, userId) = {}
    THEN Outcome(Throw(AuthError("User does not exist", "USER_NOT_FOUND", Undefined)),
                 store)
    ELSE LET id == CHOOSE i \in findById(store, userId) : TRUE
             user == store[id]
             newPasswordHash == hashPassword(data.newPassword, salt)
         IN Outcome(Ok(Undefined),
                    [store EXCEPT ![id] =
                        [user EXCEPT !.passwordHash = newPasswordHash,
                                     !.updatedAt = now]])

\* AuthService.changePassword
changePassword(store, userId, data, salt, now) ==
    IF changePasswordSchema(data) # << >>
    THEN Outcome(Throw(ZodError(changePasswordSchema(data))), store)
    ELSE IF findById(store, userId) = {}
    THEN Outcome(Throw(AuthError("User does not exist", "USER_NOT_FOUND", Undefined)),
                 store)
    ELSE LET id == CHOOSE i \in findById(store, userId) : TRUE
             user == store[id]
         IN IF ~verifyPassword(data.oldPassword, user.passwordHash)
            THEN Outcome(Throw(AuthError("Current password is wrong",
                                         "INVALID_PASSWORD", Undefined)), store)
            ELSE LET newPasswordHash == hashPassword(data.newPassword, salt)
                 IN Outcome(Ok(Undefined),
                            [store EXCEPT ![id] =
                                [user EXCEPT !.passwordHash = newPasswordHash,
                                             !.updatedAt = now]])

\* AuthService.getUserByToken
getUserByToken(store, token, now) ==
    LET payload == verifyToken(token, now) IN
    IF ~payload.ok THEN Outcome(payload, store)
    ELSE getCurrentUser(store, payload.value.userId)

(***************************************************************************)
(* HTTP: requests, responses.                                              *)
(***************************************************************************)
NoHeader == [undefined |-> TRUE]
NoRes == [undefined |-> TRUE]

\* The Authorization header: absent, or text followed by an encoded JWT
\* (either may be empty)
Header(text, jwt) == [text |-> text, jwt |-> jwt]

Request(authorization, body) ==
    [headers |-> [authorization |-> authorization], body |-> body, user |-> NoUser]

\* res.status(status).json(body)
Json(status, body) == [status |-> status, body |-> body]

\* a non-empty string is truthy
Truthy(str) == str # NoHeader /\ (Len(str.text) > 0 \/ str.jwt # NoJwt)

Bearer == <<"B","e","a","r","e","r"," ">>

\* extractToken matching the prefix without regard to case
extractToken_IgnoreCase(authHeader) ==
    IF Truthy(authHeader)
       /\ (StartsWith(authHeader.text, Bearer)
           \/ StartsWith(authHeader.text, <<"b","e","a","r","e","r"," ">>))
    THEN TokenString(Drop(authHeader.text, BEARER_LEN), authHeader.jwt)
    ELSE NoHeader

\* authHeader && authHeader.startsWith('Bearer ') ? authHeader.slice(7) : null
\* (an encoded JWT holds no space, so the prefix lies in the text before it)
extractToken(authHeader) ==
    IF Truthy(authHeader) /\ StartsWith(authHeader.text, Bearer)
    THEN TokenString(Drop(authHeader.text, BEARER_LEN), authHeader.jwt)
    ELSE NoHeader

(***************************************************************************)
(* Access Gate.  A middleware is given the request and yields the request  *)
(* as it leaves it, the number of times it called next(), and the response *)
(* it sent, if any.                                                        *)
(***************************************************************************)
Passed(req, next, res) == [req |-> req, next |-> next, res |-> res]

\* authenticateToken trusting the decoded payload of any well-formed token
authenticateToken_DecodeOnly(req, now) ==
    LET token == extractToken(req.headers.authorization) IN
    IF ~Truthy(token)
    THEN Passed(req, 0, Json(401, [success |-> FALSE,
                   error |-> [code |-> "NO_TOKEN",
                              message |-> "Please provide an authentication token"]]))
    ELSE IF token.text = << >> /\ token.jwt # NoJwt
    THEN Passed([req EXCEPT !.user = [userId |-> token.jwt.userId,
                                      email |-> token.jwt.email,
                                      role |-> token.jwt.role]], 1, NoRes)
    ELSE Passed(req, 0, Json(401, [success |-> FALSE,
                   error |-> [code |-> "INVALID_TOKEN",
                              message |-> "Token invalid or expired"]]))

\* authenticateToken
authenticateToken(req, now) ==
    LET token == extractToken(req.headers.authorization) IN
    IF ~Truthy(token)
    THEN Passed(req, 0, Json(401, [success |-> FALSE,
                   error |-> [code |-> "NO_TOKEN",
                              message |-> "Please provide an authentication token"]]))
    ELSE LET v == verifyToken(token, now) IN
         IF v.ok
         THEN Passed([req EXCEPT !.user = [userId |-> v.value.userId,
                                           email |-> v.value.email,
                                           role |-> v.value.role]], 1, NoRes)
         ELSE IF v.error.name = "AuthError"
         THEN Passed(req, 0, Json(401, [success |-> FALSE,
                        error |-> [code |-> v.error.code, message |-> v.error.message]]))
         ELSE Passed(req, 0, Json(500, [success |-> FALSE,
                        error |-> [code |-> "SERVER_ERROR",
                                   message |-> "Internal server error"]]))

\* optionalAuth rejecting a token that does not verify
optionalAuth_Strict(req, now) ==
    IF Truthy(extractToken(req.headers.authorization))
    THEN authenticateToken(req, now)
    ELSE Passed(req, 1, NoRes)

\* optionalAuth
optionalAuth(req, now) ==
    LET token == extractToken(req.headers.authorization) IN
    IF Truthy(token) /\ verifyToken(token, now).ok
    THEN LET payload == verifyToken(token, now).value IN
         Passed([req EXCEPT !.user = [userId |-> payload.userId,
                                      email |-> payload.email,
                                      role |-> payload.role]], 1, NoRes)
    ELSE Passed(req, 1, NoRes)

\* requireRole letting every authenticated caller through
requireRole_NoRoleCheck(roles, req) ==
    IF req.user = NoUser
    THEN Passed(req, 0, Json(401, [success |-> FALSE,
                   error |-> [code |-> "NOT_AUTHENTICATED",
                              message |-> "Please log in first"]]))
    ELSE Passed(req, 1, NoRes)

\* requireRole(roles)
requireRole(roles, req) ==
    IF req.user = NoUser
    THEN Passed(req, 0, Json(401, [success |-> FALSE,
                   error |-> [code |-> "NOT_AUTHENTICATED",
                              message |-> "Please log in first"]]))
    ELSE IF req.user.role \notin roles
    THEN Passed(req, 0, Json(403, [success |-> FALSE,
                   error |-> [code |-> "INSUFFICIENT_PERMISSIONS",
                              message |-> "Insufficient permissions"]]))
    ELSE Passed(req, 1, NoRes)

\* requireAdmin, requireEditor
requireAdmin(req) == requireRole({"ADMIN"}, req)
requireEditor(req) == requireRole({"EDITOR", "ADMIN"}, req)

\* handleError of the auth routes
handleError(error) ==
    IF error.name = "AuthError"
    THEN Json(400, [success |-> FALSE,
                    error |-> [code |-> error.code, message |-> error.message,
                               field |-> error.field]])
    ELSE IF error.name = "ZodError"
    THEN Json(400, [success |-> FALSE,
                    error |-> [code |-> "VALIDATION_ERROR",
                               message |-> "Input data format error",
                               details |-> error.issues]])
    ELSE Json(500, [success |-> FALSE,
                    error |-> [code |-> "SERVER_ERROR",
                               message |-> "Internal server error"]])

(***************************************************************************)
(* Article Service (the part the gated read route uses).                   *)
(***************************************************************************)
\* ArticleService.getArticleById: the article, or null
getArticleById(store, id) ==
    LET found == {i \in 1..Len(store) : store[i].id = id} IN
    IF found = {} THEN [null |-> TRUE]
    ELSE store[CHOOSE i \in found : TRUE]

(***************************************************************************)
(* Article Service.  An article row keeps the columns id, title, slug,     *)
(* content, category, isPublished, viewCount, authorId, createdAt and      *)
(* updatedAt; excerpt, readTime, tags, imageUrl and publishDate, which are *)
(* written from the input and never read back by the service, are left     *)
(* out.  Each operation is given the Article table, the User table, its    *)
(* input and the clock, and yields its result and the table it leaves.     *)
(***************************************************************************)
TITLE_MAX == 200
PAGE_DEFAULT == 1
PAGESIZE_DEFAULT == 10
PAGESIZE_MAX == 100

ArticleError(message, code) ==
    [name |-> "ArticleError", message |-> message, code |-> code, field |-> Undefined]

ArticleKeys == {"title", "content", "category", "isPublished"}

\* createArticleSchema: title, content and category are required
createArticleSchema(data) ==
    LET has(k) == k \in DOMAIN data IN
    When(~has("title"), Issue("title", "Required"))
    \o When(has("title") /\ Len(data.title) < 1, Issue("title", "Title cannot be empty"))
    \o When(has("title") /\ Len(data.title) > TITLE_MAX,
            Issue("title", "Title cannot exceed 200 characters"))
    \o When(~has("content"), Issue("content", "Required"))
    \o When(has("content") /\ Len(data.content) < 1,
            Issue("content", "Content cannot be empty"))
    \o When(~has("category"), Issue("category", "Required"))
    \o When(has("category") /\ Len(data.category) < 1,
            Issue("category", "Category cannot be empty"))

\* createArticleSchema.parse(data), for data that passes: the known keys,
\* isPublished false when it is not given
createArticleParsed(data) ==
    [k \in (DOMAIN data \cap ArticleKeys) \cup {"isPublished"} |->
        IF k \in DOMAIN data THEN data[k] ELSE FALSE]

\* updateArticleSchema = createArticleSchema.partial(): a key that is absent
\* is not checked
updateArticleSchema(data) ==
    LET has(k) == k \in DOMAIN data IN
    When(has("title") /\ Len(data.title) < 1, Issue("title", "Title cannot be empty"))
    \o When(has("title") /\ Len(data.title) > TITLE_MAX,
            Issue("title", "Title cannot exceed 200 characters"))
    \o When(has("content") /\ Len(data.content) < 1,
            Issue("content", "Content cannot be empty"))
    \o When(has("category") /\ Len(data.category) < 1,
            Issue("category", "Category cannot be empty"))

\* updateArticleSchema.parse(data), for data that passes: the known keys
\* that are given; an optional key takes no default
updateArticleParsed(data) == [k \in DOMAIN data \cap ArticleKeys |-> data[k]]

\* prisma.article.findUnique({where: {id}}) and ({where: {slug}})
findArticleById(store, id) == {i \in 1..Len(store) : store[i].id = id}
findArticleBySlug(store, slug) == {i \in 1..Len(store) : store[i].slug = slug}

\* include: {author: {select: {id, username, displayName, avatar}}}
withAuthor(userStore, article) ==
    LET found == findById(userStore, article.authorId)
        u == userStore[CHOOSE i \in found : TRUE]
    IN article @@ [author |-> [id |-> u.id, username |-> u.username,
                               displayName |-> u.displayName, avatar |-> u.avatar]]

ArticleOutcome(result, store) == [result |-> result, articles |-> store]

\* String.prototype.toLowerCase on the letters A to Z
ToLowerCase(c) ==
    LET up == <<"A","B","C","D","E","F","G","H","I","J","K","L","M",
                "N","O","P","Q","R","S","T","U","V","W","X","Y","Z">>
        low == <<"a","b","c","d","e","f","g","h","i","j","k","l","m",
                 "n","o","p","q","r","s","t","u","v","w","x","y","z">>
    IN IF c \in Upper THEN low[CHOOSE i \in 1..26 : up[i] = c] ELSE c

\* A character of the range \u4e00-\u9fa5, written by a name
Cjk == {"U+4E2D", "U+6587"}

\* .replace(/[^a-z0-9\u4e00-\u9fa5]+/g, '-').replace(/-+/g, '-'): every
\* run of other characters becomes one dash
RECURSIVE Dashed(_)
Dashed(s) ==
    IF s = << >> THEN << >>
    ELSE LET c == IF s[1] \in Lower \cup Digit \cup Cjk THEN s[1] ELSE "-"
             rest == Dashed(Tail(s))
         IN IF c = "-" /\ rest # << >> /\ rest[1] = "-" THEN rest ELSE <<c>> \o rest

\* .replace(/^-|-$/g, ''): a leading and a trailing dash are dropped
Trimmed(s) ==
    LET a == IF s # << >> /\ s[1] = "-" THEN Tail(s) ELSE s
    IN IF a # << >> /\ a[Len(a)] = "-" THEN SubSeq(a, 1, Len(a) - 1) ELSE a

\* The slug of a title before it is made unique; a title that leaves no
\* letter or digit takes `article-${Date.now()}`
baseSlug(title, now) ==
    LET slug == Trimmed(Dashed([i \in 1..Len(title) |-> ToLowerCase(title[i])]))
    IN IF \E i \in 1..Len(slug) : slug[i] \in Lower \cup Digit
       THEN slug
       ELSE <<"a","r","t","i","c","l","e","-">> \o <<ToString(now)>>

\* `${slug}-${counter}`
numbered(slug, counter) ==
    IF counter = 0 THEN slug ELSE slug \o <<"-">> \o <<ToString(counter)>>

\* the while (true) loop of generateUniqueSlug from a given counter on
RECURSIVE uniqueSlugFrom(_, _, _, _)
uniqueSlugFrom(store, slug, excludeId, counter) ==
    LET uniqueSlug == numbered(slug, counter)
        existing == findArticleBySlug(store, uniqueSlug)
    IN IF existing = {} \/ \A i \in existing : store[i].id = excludeId
       THEN uniqueSlug
       ELSE uniqueSlugFrom(store, slug, excludeId, counter + 1)

\* generateUniqueSlug that returns the slug of the title as it is
generateUniqueSlug_NoLoop(store, title, excludeId, now) == baseSlug(title, now)

\* ArticleService.generateUniqueSlug
generateUniqueSlug(store, title, excludeId, now) ==
    uniqueSlugFrom(store, baseSlug(title, now), excludeId, 0)

\* no excludeId given
NoId == 0

\* a table without the unique index of slug
articleWrite_NoIndex(store, userStore, row) ==
    IF findById(userStore, row.authorId) = {}
    THEN Throw(OtherError("PrismaClientKnownRequestError: P2003"))
    ELSE Ok(row)

\* What the table does with a row to be written, under the unique index of
\* slug and the relation of authorId to the User table: the row, or the
\* error the store raises
articleWrite(store, userStore, row) ==
    IF \E i \in findArticleBySlug(store, row.slug) : store[i].id # row.id
    THEN Throw(OtherError("PrismaClientKnownRequestError: P2002"))
    ELSE IF findById(userStore, row.authorId) = {}
    THEN Throw(OtherError("PrismaClientKnownRequestError: P2003"))
    ELSE Ok(row)

\* prisma.article.create({data}) of createArticle: the row to be created,
\* the columns not given taking their defaults
newArticle(validatedData, slug, authorId, id, now) ==
    [id |-> id, title |-> validatedData.title, slug |-> slug,
     content |-> validatedData.content, category |-> validatedData.category,
     isPublished |-> validatedData.isPublished, viewCount |-> 0,
     authorId |-> authorId, createdAt |-> now, updatedAt |-> now]

\* ArticleService.createArticle; id is the id the store hands out
createArticle(store, userStore, data, authorId, id, now) ==
    IF createArticleSchema(data) # << >>
    THEN ArticleOutcome(Throw(ZodError(createArticleSchema(data))), store)
    ELSE LET validatedData == createArticleParsed(data)
             slug == generateUniqueSlug(store, validatedData.title, NoId, now)
             written == articleWrite(store, userStore,
                                     newArticle(validatedData, slug, authorId, id, now))
         IN IF ~written.ok
            THEN ArticleOutcome(Throw(written.error), store)
            ELSE ArticleOutcome(Ok(withAuthor(userStore, written.value)),
                                Append(store, written.value))

\* the permission check of updateArticle and deleteArticle: the caller is
\* stored, and is the author or has the stored role ADMIN
mayWrite(userStore, existingArticle, userId) ==
    LET found == findById(userStore, userId)
    IN /\ found # {}
       /\ \/ existingArticle.authorId = userId
          \/ \A i \in found : userStore[i].role = "ADMIN"

\* updateArticle that checks the permission before it looks for the article
updateArticle_PermissionFirst(store, userStore, id, data, userId, now) ==
    IF updateArticleSchema(data) # << >>
    THEN ArticleOutcome(Throw(ZodError(updateArticleSchema(data))), store)
    ELSE IF findById(userStore, userId) = {}
    THEN ArticleOutcome(Throw(ArticleError("No permission to edit this article",
                                           "PERMISSION_DENIED")), store)
    ELSE IF findArticleById(store, id) = {}
    THEN ArticleOutcome(Throw(ArticleError("Article does not exist",
                                           "ARTICLE_NOT_FOUND")), store)
    ELSE LET i == CHOOSE j \in findArticleById(store, id) : TRUE
             existingArticle == store[i]
         IN IF ~mayWrite(userStore, existingArticle, userId)
            THEN ArticleOutcome(Throw(ArticleError("No permission to edit this article",
                                                   "PERMISSION_DENIED")), store)
            ELSE LET validatedData == updateArticleParsed(data)
                     retitled == /\ "title" \in DOMAIN validatedData
                                 /\ validatedData.title # existingArticle.title
                     updateData ==
                        IF retitled
                        THEN validatedData @@
                             [slug |-> generateUniqueSlug(store, validatedData.title,
                                                          existingArticle.id, now)]
                        ELSE validatedData
                     row == [f \in DOMAIN existingArticle |->
                                IF f \in DOMAIN updateData THEN updateData[f]
                                ELSE IF f = "updatedAt" THEN now
                                ELSE existingArticle[f]]
                     written == articleWrite(store, userStore, row)
                 IN IF ~written.ok
                    THEN ArticleOutcome(Throw(written.error), store)
                    ELSE ArticleOutcome(Ok(withAuthor(userStore, written.value)),
                                        [store EXCEPT ![i] = written.value])

\* ArticleService.updateArticle
updateArticle(store, userStore, id, data, userId, now) ==
    IF updateArticleSchema(data) # << >>
    THEN ArticleOutcome(Throw(ZodError(updateArticleSchema(data))), store)
    ELSE IF findArticleById(store, id) = {}
    THEN ArticleOutcome(Throw(ArticleError("Article does not exist",
                                           "ARTICLE_NOT_FOUND")), store)
    ELSE LET i == CHOOSE j \in findArticleById(store, id) : TRUE
             existingArticle == store[i]
         IN IF ~mayWrite(userStore, existingArticle, userId)
            THEN ArticleOutcome(Throw(ArticleError("No permission to edit this article",
                                                   "PERMISSION_DENIED")), store)
            ELSE LET validatedData == updateArticleParsed(data)
                     retitled == /\ "title" \in DOMAIN validatedData
                                 /\ validatedData.title # existingArticle.title
                     updateData ==
                        IF retitled
                        THEN validatedData @@
                             [slug |-> generateUniqueSlug(store, validatedData.title,
                                                          existingArticle.id, now)]
                        ELSE validatedData
                     row == [f \in DOMAIN existingArticle |->
                                IF f \in DOMAIN updateData THEN updateData[f]
                                ELSE IF f = "updatedAt" THEN now
                                ELSE existingArticle[f]]
                     written == articleWrite(store, userStore, row)
                 IN IF ~written.ok
                    THEN ArticleOutcome(Throw(written.error), store)
                    ELSE ArticleOutcome(Ok(withAuthor(userStore, written.value)),
                                        [store EXCEPT ![i] = written.value])

\* Array without the element at position i
Without(store, i) == SubSeq(store, 1, i - 1) \o SubSeq(store, i + 1, Len(store))

\* ArticleService.deleteArticle
deleteArticle(store, userStore, id, userId) ==
    IF findArticleById(store, id) = {}
    THEN ArticleOutcome(Throw(ArticleError("Article does not exist",
                                           "ARTICLE_NOT_FOUND")), store)
    ELSE LET i == CHOOSE j \in findArticleById(store, id) : TRUE
             existingArticle == store[i]
         IN IF ~mayWrite(userStore, existingArticle, userId)
            THEN ArticleOutcome(Throw(ArticleError("No permission to delete this article",
                                                   "PERMISSION_DENIED")), store)
            ELSE ArticleOutcome(Ok(Undefined), Without(store, i))

\* articleQuerySchema, over the keys page, pageSize, isPublished, authorId,
\* sortBy and sortOrder (category, tags and search are left out)
SortKeys == {"createdAt", "publishDate", "title", "viewCount"}

articleQuerySchema(query) ==
    LET has(k) == k \in DOMAIN query IN
    When(has("page") /\ query.page < 1,
         Issue("page", "Number must be greater than or equal to 1"))
    \o When(has("pageSize") /\ query.pageSize < 1,
            Issue("pageSize", "Number must be greater than or equal to 1"))
    \o When(has("pageSize") /\ query.pageSize > PAGESIZE_MAX,
            Issue("pageSize", "Number must be less than or equal to 100"))
    \o When(has("sortBy") /\ query.sortBy \notin SortKeys,
            Issue("sortBy", "Invalid enum value"))
    \o When(has("sortOrder") /\ query.sortOrder \notin {"asc", "desc"},
            Issue("sortOrder", "Invalid enum value"))

\* articleQuerySchema.parse(query), for a query that passes: the defaults
\* filled in
articleQueryParsed(query) ==
    [k \in (DOMAIN query \cap {"isPublished", "authorId"})
           \cup {"page", "pageSize", "sortBy", "sortOrder"} |->
        IF k \in DOMAIN query THEN query[k]
        ELSE IF k = "page" THEN PAGE_DEFAULT
        ELSE IF k = "pageSize" THEN PAGESIZE_DEFAULT
        ELSE IF k = "sortBy" THEN "createdAt"
        ELSE "desc"]

\* the rows the where clause selects, by their positions in the table
whereMatches(store, validatedQuery) ==
    {i \in DOMAIN store :
        /\ "isPublished" \in DOMAIN validatedQuery
              => store[i].isPublished = validatedQuery.isPublished
        /\ "authorId" \in DOMAIN validatedQuery
              => store[i].authorId = validatedQuery.authorId}

\* orderBy: {[sortBy]: sortOrder}: the selected rows in the order of the
\* key; rows of equal key come in an order the database fixes, the same at
\* every call over the same table
orderBy(store, rows, sortBy, sortOrder) ==
    LET n == Cardinality(rows) IN
    CHOOSE s \in [1..n -> rows] :
        /\ \A i, j \in 1..n : i # j => s[i] # s[j]
        /\ \A i, j \in 1..n :
              i < j => IF sortOrder = "asc"
                       THEN store[s[i]][sortBy] <= store[s[j]][sortBy]
                       ELSE store[s[i]][sortBy] >= store[s[j]][sortBy]

\* findMany({skip, take}) over the ordered rows
skipTake(s, skip, take) ==
    SubSeq(s, skip + 1, IF skip + take < Len(s) THEN skip + take ELSE Len(s))

\* Math.ceil(a / b) for a >= 0 and b > 0
Ceil(a, b) == (a + b - 1) \div b

\* getArticles that skips page * pageSize rows
getArticles_SkipsPage(store, userStore, query) ==
    IF articleQuerySchema(query) # << >>
    THEN Throw(ZodError(articleQuerySchema(query)))
    ELSE LET validatedQuery == articleQueryParsed(query)
             rows == whereMatches(store, validatedQuery)
             skip == validatedQuery.page * validatedQuery.pageSize
             ordered == orderBy(store, rows, validatedQuery.sortBy,
                                validatedQuery.sortOrder)
             found == skipTake(ordered, skip, validatedQuery.pageSize)
             total == Cardinality(rows)
         IN Ok([articles |-> [i \in DOMAIN found |-> withAuthor(userStore, store[found[i]])],
                pagination |-> [page |-> validatedQuery.page,
                                pageSize |-> validatedQuery.pageSize,
                                total |-> total,
                                totalPages |-> Ceil(total, validatedQuery.pageSize)]])

\* ArticleService.getArticles
getArticles(store, userStore, query) ==
    IF articleQuerySchema(query) # << >>
    THEN Throw(ZodError(articleQuerySchema(query)))
    ELSE LET validatedQuery == articleQueryParsed(query)
             rows == whereMatches(store, validatedQuery)
             skip == (validatedQuery.page - 1) * validatedQuery.pageSize
             ordered == orderBy(store, rows, validatedQuery.sortBy,
                                validatedQuery.sortOrder)
             found == skipTake(ordered, skip, validatedQuery.pageSize)
             total == Cardinality(rows)
         IN Ok([articles |-> [i \in DOMAIN found |-> withAuthor(userStore, store[found[i]])],
                pagination |-> [page |-> validatedQuery.page,
                                pageSize |-> validatedQuery.pageSize,
                                total |-> total,
                                totalPages |-> Ceil(total, validatedQuery.pageSize)]])

\* handleError of the article routes
handleArticleError(error) ==
    IF error.name = "ArticleError"
    THEN Json(400, [success |-> FALSE,
                    error |-> [code |-> error.code, message |-> error.message,
                               field |-> error.field]])
    ELSE IF error.name = "ZodError"
    THEN Json(400, [success |-> FALSE,
                    error |-> [code |-> "VALIDATION_ERROR",
                               message |-> "Input data format error",
                               details |-> error.issues]])
    ELSE Json(500, [success |-> FALSE,
                    error |-> [code |-> "SERVER_ERROR",
                               message |-> "Internal server error"]])

(***************************************************************************)
(* Inputs of the calls.                                                    *)
(***************************************************************************)
RegisterData(email, username, displayName, password, agreeToTerms) ==
    [email |-> email, username |-> username, displayName |-> displayName,
     password |-> password, agreeToTerms |-> agreeToTerms]

RegisterInputs ==
    {RegisterData(EmailA, u, NameAl, PwSecret, TRUE) : u \in {UserAnn, UserBob}}
    \cup {RegisterData(EmailB, u, NameAl, PwLong1, TRUE) : u \in {UserAnn, UserBob}}
    \cup {RegisterData(EmailBad, UserAnn, NameAl, PwSecret, TRUE),
          RegisterData(EmailA, UserShort, NameAl, PwSecret, TRUE),
          RegisterData(EmailA, UserDash, NameAl, PwSecret, TRUE),
          RegisterData(EmailA, UserAnn, NameOne, PwSecret, TRUE),
          RegisterData(EmailA, UserAnn, NameAl, PwShort, TRUE),
          RegisterData(EmailA, UserAnn, NameAl, PwHuge, TRUE),
          RegisterData(EmailA, UserAnn, NameAl, PwSecret, FALSE)}

LoginData(email, password) == [email |-> email, password |-> password]

LoginInputs ==
    {LoginData(e, p) : e \in {EmailA, EmailB}, p \in {PwSecret, PwLong1, PwLong2}}
    \cup {LoginData(EmailBad, PwSecret), LoginData(EmailA, PwEmpty)}

ChangePasswordData(oldPassword, newPassword) ==
    [oldPassword |-> oldPassword, newPassword |-> newPassword]

ChangePasswordInputs ==
    {ChangePasswordData(o, n) : o \in {PwSecret, PwLong1, PwLong2},
                                n \in {PwSecret, PwLong2}}
    \cup {ChangePasswordData(PwEmpty, PwSecret), ChangePasswordData(PwSecret, PwShort)}

\* Bodies of PUT /api/auth/profile: each known key alone, all three, none,
\* an emptied avatar, keys the schema does not know, and malformed values
BioHi == <<"h", "i">>
AvatarUrl == <<"h", "t", "t", "p", ":", "/", "/", "a">>
AvatarBad == <<"n", "o", "p", "e">>
BioHuge == Rep("b", BIO_MAX + 1)
EmptyBody == [k \in {} |-> << >>]

ForeignKeys ==
    [email |-> EmailB, username |-> UserBob, role |-> "ADMIN",
     passwordHash |-> hashPassword(PwLong2, "salt2"),
     isEmailVerified |-> TRUE, lastLoginAt |-> 1, id |-> MaxUsers + 1]

ProfileInputs ==
    {[displayName |-> NameBo],
     [bio |-> BioHi],
     [avatar |-> AvatarUrl],
     [avatar |-> << >>],
     [displayName |-> NameBo, bio |-> BioHi, avatar |-> AvatarUrl],
     EmptyBody,
     ForeignKeys,
     [displayName |-> NameBo] @@ ForeignKeys,
     [displayName |-> NameOne],
     [bio |-> BioHuge],
     [avatar |-> AvatarBad],
     [avatar |-> AvatarBad] @@ ForeignKeys}

\* A token signed by some other party: any claims, any key
Minted(userId, email, role, iat, exp, iss, aud, key) ==
    TokenString(<< >>,
        [userId |-> userId, email |-> email, role |-> role, iat |-> iat, exp |-> exp,
         iss |-> iss, aud |-> aud, key |-> key])

\* Tokens that carry the issuer and audience verifyToken requires, signed
\* with the service's secret and not yet expired
GoodMinted(now, ids, roles) ==
    {Minted(u, EmailA, r, now, now + 1, "blog-backend", "blog-frontend", JWT_SECRET) :
        u \in ids, r \in roles}

\* Tokens with one defect each: expired, forged, wrong issuer, wrong audience
BadMinted(now) ==
    {Minted(1, EmailA, "ADMIN", now - 1, now, "blog-backend", "blog-frontend", JWT_SECRET),
     Minted(1, EmailA, "ADMIN", now, now + 1, "blog-backend", "blog-frontend", "other-key"),
     Minted(1, EmailA, "ADMIN", now, now + 1, "someone-else", "blog-frontend", JWT_SECRET),
     Minted(1, EmailA, "ADMIN", now, now + 1, "blog-backend", "someone-else", JWT_SECRET)}

NoHeld == [undefined |-> TRUE]

HeldTokens == IF held = NoHeld THEN {} ELSE {held}

BearerHeader(token) == Header(Bearer \o token.text, token.jwt)

\* The Authorization headers the gate is tried with: none, an empty one,
\* the bare prefix, a prefix without its space, another scheme, a prefix in
\* lower case, a token without a prefix, text that is no JWT, and a bearer
\* token of each kind
GateHeaders ==
    {NoHeader,
     Header(<< >>, NoJwt),
     Header(Bearer, NoJwt),
     Header(Bearer \o <<"x">>, NoJwt),
     Header(<<"B","e","a","r","e","r">>, NoJwt)}
    \cup {Header(<<"b","e","a","r","e","r"," ">>, t.jwt) : t \in GoodMinted(clock, {1}, {"USER"})}
    \cup {Header(<<"B","a","s","i","c"," ">>, t.jwt) : t \in GoodMinted(clock, {1}, {"USER"})}
    \cup {Header(<< >>, t.jwt) : t \in GoodMinted(clock, {1}, {"USER"})}
    \cup {BearerHeader(t) : t \in HeldTokens \cup GoodMinted(clock, {1}, Roles)
                                  \cup BadMinted(clock)}

\* The calls of PUT /api/auth/password: without a token, with the token the
\* client holds, and with a good token for each account id
PasswordCalls ==
    {<<h, ChangePasswordData(PwSecret, PwLong2)>> :
        h \in {NoHeader} \cup {BearerHeader(t) : t \in HeldTokens}}
    \cup ({BearerHeader(t) : t \in GoodMinted(clock, 1..(MaxUsers + 1), {"USER"})}
          \X ChangePasswordInputs)

\* A token as verifyToken requires it, issued to the first account at the
\* start with the configured lifetime
StartToken ==
    Minted(1, EmailA, "USER", 0, JWT_EXPIRES_IN, "blog-backend", "blog-frontend",
           JWT_SECRET)

\* The headers the account routes behind the gate are called with: none, a
\* fresh good token for the first account and for an account that does not
\* exist
AccountHeaders ==
    {NoHeader}
    \cup {BearerHeader(t) : t \in GoodMinted(clock, {1, MaxUsers + 1}, {"USER"})}

\* The same, and the tokens kept from earlier: the one the client holds and
\* the one issued at the start
KeptHeaders ==
    AccountHeaders \cup {BearerHeader(t) : t \in HeldTokens \cup {StartToken}}

\* The calls of PUT /api/auth/password of one account
FewPasswordCalls ==
    {<<NoHeader, ChangePasswordData(PwSecret, PwLong2)>>}
    \cup ({BearerHeader(t) : t \in GoodMinted(clock, {MaxUsers + 1}, {"USER"})}
          \X {ChangePasswordData(PwSecret, PwLong2),
              ChangePasswordData(PwEmpty, PwSecret)})
    \cup ({BearerHeader(t) : t \in GoodMinted(clock, {1}, {"USER"})}
          \X {ChangePasswordData(PwSecret, PwLong2),
              ChangePasswordData(PwLong2, PwSecret),
              ChangePasswordData(PwEmpty, PwSecret)})

\* The headers a role-gated route is called with
RoleHeaders ==
    {NoHeader} \cup {BearerHeader(t) : t \in GoodMinted(clock, {1}, Roles)}

(***************************************************************************)
(* The exchanges: one action per route, the middleware chain and the       *)
(* handler run in one step.                                                *)
(***************************************************************************)
Exchange(op, req, user, handlerRuns, res, before, at) ==
    [op |-> op, req |-> req, user |-> user, handlerRuns |-> handlerRuns,
     res |-> res, before |-> before, at |-> at]

NoExchange == [op |-> "none"]

\* The register calls that run side by side, and where each stands: idle,
\* before its email lookup, before its username lookup, before its write,
\* or done with its response not yet delivered
Procs == 1..MaxRacers

Idle == [pc |-> "idle"]

Running(pc, data) == [pc |-> pc, data |-> data]

Done(data, res, wrote) == [pc |-> "done", data |-> data, res |-> res, wrote |-> wrote]

RaceInputs ==
    {RegisterData(EmailA, UserAnn, NameAl, PwSecret, TRUE),
     RegisterData(EmailA, UserBob, NameBo, PwSecret, TRUE),
     RegisterData(EmailB, UserAnn, NameAl, PwSecret, TRUE),
     RegisterData(EmailBad, UserAnn, NameAl, PwSecret, TRUE)}

Init ==
    /\ users = << >>
    /\ clock = 0
    /\ held = NoHeld
    /\ articles = << >>
    /\ serial = 0
    /\ passwords = << >>
    /\ last = NoExchange
    /\ racing = [p \in Procs |-> Idle]

\* The instants at which calls are made: the start, the last second of the
\* lifetime of a token issued at the start, and the second it expires
Times == {0, JWT_EXPIRES_IN - 1, JWT_EXPIRES_IN}

\* time passes between two calls
Tick ==
    /\ last = NoExchange
    /\ \E t \in Times : t > clock /\ clock' = t
    /\ UNCHANGED <<users, held, articles, serial, racing, passwords, last>>

\* POST /api/auth/register
PostRegisterOf(inputs) ==
    \E data \in inputs, salt \in Salts :
        LET o == register(users, data, salt, clock)
            res == IF o.result.ok
                   THEN Json(201, [success |-> TRUE, data |-> o.result.value,
                                   message |-> "Registered"])
                   ELSE handleError(o.result.error)
        IN /\ last = NoExchange
           /\ o.result.ok => Len(users) < MaxUsers
           /\ users' = o.users
           /\ held' = IF o.result.ok THEN o.result.value.token ELSE held
           /\ passwords' = IF o.result.ok
                            THEN Append(passwords, [current |-> data.password,
                                                    earlier |-> {}])
                            ELSE passwords
           /\ last' = Exchange("POST /api/auth/register", Request(NoHeader, data),
                               NoUser, 1, res, users, clock)
           /\ UNCHANGED <<clock, articles, serial, racing>>

PostRegister == PostRegisterOf(RegisterInputs)

\* POST /api/auth/login
PostLoginOf(inputs) ==
    \E data \in inputs :
        LET o == login(users, data, clock)
            res == IF o.result.ok
                   THEN Json(200, [success |-> TRUE, data |-> o.result.value,
                                   message |-> "Logged in"])
                   ELSE handleError(o.result.error)
        IN /\ last = NoExchange
           /\ users' = o.users
           /\ held' = IF o.result.ok THEN o.result.value.token ELSE held
           /\ last' = Exchange("POST /api/auth/login", Request(NoHeader, data),
                               NoUser, 1, res, users, clock)
           /\ UNCHANGED <<clock, articles, serial, racing, passwords>>

PostLogin == PostLoginOf(LoginInputs)

\* PUT /api/auth/password
PutPasswordOf(calls) ==
    \E call \in calls, salt \in Salts :
        LET header == call[1]
            data == call[2]
            g == authenticateToken(Request(header, data), clock)
            o == changePassword(users, g.req.user.userId, data, salt, clock)
            res == IF o.result.ok
                   THEN Json(200, [success |-> TRUE, message |-> "Password changed"])
                   ELSE handleError(o.result.error)
            changed == g.next > 0 /\ o.result.ok
            id == g.req.user.userId
        IN /\ last = NoExchange
           /\ users' = IF g.next = 0 THEN users ELSE o.users
           /\ passwords' = IF changed
                            THEN [passwords EXCEPT ![id] =
                                    [current |-> data.newPassword,
                                     earlier |-> @.earlier \cup {@.current}]]
                            ELSE passwords
           /\ last' = Exchange("PUT /api/auth/password", Request(header, data),
                               g.req.user, g.next,
                               IF g.next = 0 THEN g.res ELSE res, users, clock)
           /\ UNCHANGED <<clock, held, articles, serial, racing>>

\* GET /api/auth/me
GetMe ==
    \E header \in KeptHeaders :
        LET g == authenticateToken(Request(header, Undefined), clock)
            o == getCurrentUser(users, g.req.user.userId)
            res == IF o.result.ok
                   THEN Json(200, [success |-> TRUE, data |-> o.result.value])
                   ELSE handleError(o.result.error)
        IN /\ last = NoExchange
           /\ last' = Exchange("GET /api/auth/me", Request(header, Undefined),
                               g.req.user, g.next,
                               IF g.next = 0 THEN g.res ELSE res, users, clock)
           /\ UNCHANGED <<users, clock, held, articles, serial, racing, passwords>>

\* PUT /api/auth/profile
PutProfile ==
    \E header \in AccountHeaders, data \in ProfileInputs :
        LET g == authenticateToken(Request(header, data), clock)
            o == updateProfile(users, g.req.user.userId, data, clock)
            res == IF o.result.ok
                   THEN Json(200, [success |-> TRUE, data |-> o.result.value,
                                   message |-> "Profile updated"])
                   ELSE handleError(o.result.error)
        IN /\ last = NoExchange
           /\ users' = IF g.next = 0 THEN users ELSE o.users
           /\ last' = Exchange("PUT /api/auth/profile", Request(header, data),
                               g.req.user, g.next,
                               IF g.next = 0 THEN g.res ELSE res, users, clock)
           /\ UNCHANGED <<clock, held, articles, serial, racing, passwords>>

\* POST /api/auth/logout: behind the gate, and nothing is done for it
PostLogout ==
    \E header \in AccountHeaders :
        LET g == authenticateToken(Request(header, Undefined), clock)
            res == Json(200, [success |-> TRUE, message |-> "Logged out"])
        IN /\ last = NoExchange
           /\ last' = Exchange("POST /api/auth/logout", Request(header, Undefined),
                               g.req.user, g.next,
                               IF g.next = 0 THEN g.res ELSE res, users, clock)
           /\ UNCHANGED <<users, clock, held, articles, serial, racing, passwords>>

\* a call of AuthService.getUserByToken; what it returns or throws is kept
\* as it is, no route wraps it
CallGetUserByToken ==
    \E token \in HeldTokens \cup GoodMinted(clock, {1, MaxUsers + 1}, {"USER"})
                            \cup BadMinted(clock) :
        LET o == getUserByToken(users, token, clock)
        IN /\ last = NoExchange
           /\ last' = Exchange("AuthService.getUserByToken",
                               Request(NoHeader, token), NoUser, 1, NoRes, users, clock)
                       @@ [returned |-> o.result]
           /\ UNCHANGED <<users, clock, held, articles, serial, racing, passwords>>

PutPassword == PutPasswordOf(PasswordCalls)

\* GET /api/auth/verify
GetVerify ==
    \E header \in GateHeaders :
        LET g == authenticateToken(Request(header, Undefined), clock)
            res == Json(200, [success |-> TRUE,
                              data |-> [valid |-> TRUE,
                                        user |-> [userId |-> g.req.user.userId,
                                                  email |-> g.req.user.email,
                                                  role |-> g.req.user.role]]])
        IN /\ last = NoExchange
           /\ last' = Exchange("GET /api/auth/verify", Request(header, Undefined),
                               g.req.user, g.next,
                               IF g.next = 0 THEN g.res ELSE res, users, clock)
           /\ UNCHANGED <<users, clock, held, articles, serial, racing, passwords>>

\* GET /api/articles/:id
GetArticleOf(headers, ids) ==
    \E header \in headers, id \in ids :
        LET g == optionalAuth(Request(header, Undefined), clock)
            article == getArticleById(articles, id)
            res == IF article = [null |-> TRUE]
                   THEN Json(404, [success |-> FALSE,
                                   error |-> [code |-> "ARTICLE_NOT_FOUND",
                                              message |-> "Article does not exist"]])
                   ELSE Json(200, [success |-> TRUE, data |-> article])
        IN /\ last = NoExchange
           /\ last' = Exchange("GET /api/articles/:id", Request(header, Undefined),
                               g.req.user, g.next,
                               IF g.next = 0 THEN g.res ELSE res, users, clock)
                       @@ [params |-> [id |-> id], articlesBefore |-> articles]
           /\ UNCHANGED <<users, clock, held, articles, serial, racing, passwords>>

GetArticle == GetArticleOf(GateHeaders, {1})

\* The role sets requireRole is built with
RoleSets == {{"ADMIN"}, {"EDITOR", "ADMIN"}}

\* A route behind requireRole(roles), itself behind authenticateToken or
\* behind optionalAuth
RoleGated ==
    \E header \in RoleHeaders, roles \in RoleSets,
       first \in {"authenticateToken", "optionalAuth"} :
        LET req == Request(header, Undefined)
            g == IF first = "authenticateToken" THEN authenticateToken(req, clock)
                 ELSE optionalAuth(req, clock)
            r == requireRole(roles, g.req)
            res == Json(200, [success |-> TRUE])
        IN /\ last = NoExchange
           /\ last' = Exchange("requireRole", req,
                               g.req.user, g.next * r.next,
                               IF g.next = 0 THEN g.res
                               ELSE IF r.next = 0 THEN r.res ELSE res, users, clock)
                       @@ [roles |-> roles, first |-> first]
           /\ UNCHANGED <<users, clock, held, articles, serial, racing, passwords>>

\* POST /api/auth/register, await by await.  registerSchema.parse
RaceStart(p) ==
    /\ racing[p] = Idle
    /\ \E data \in RaceInputs :
        racing' = [racing EXCEPT ![p] =
            IF registerSchema(data) # << >>
            THEN Done(data, handleError(ZodError(registerSchema(data))), FALSE)
            ELSE Running("email", data)]
    /\ UNCHANGED <<users, clock, held, articles, serial, passwords, last>>

\* await prisma.user.findUnique({where: {email}})
RaceCheckEmail(p) ==
    /\ racing[p].pc = "email"
    /\ racing' = [racing EXCEPT ![p] =
        IF findByEmail(users, @.data.email) # {}
        THEN Done(@.data, handleError(AuthError("This email is already registered",
                                                "EMAIL_EXISTS", "email")), FALSE)
        ELSE Running("username", @.data)]
    /\ UNCHANGED <<users, clock, held, articles, serial, passwords, last>>

\* await prisma.user.findUnique({where: {username}})
RaceCheckUsername(p) ==
    /\ racing[p].pc = "username"
    /\ racing' = [racing EXCEPT ![p] =
        IF findByUsername(users, @.data.username) # {}
        THEN Done(@.data, handleError(AuthError("This username is already taken",
                                                "USERNAME_EXISTS", "username")), FALSE)
        ELSE Running("create", @.data)]
    /\ UNCHANGED <<users, clock, held, articles, serial, passwords, last>>

\* await hashPassword, await prisma.user.create, generateToken, respond
RaceCreate(p) ==
    /\ racing[p].pc = "create"
    /\ \E salt \in Salts :
        LET data == racing[p].data
            o == registerCreate(users, data, salt, clock)
            res == IF o.result.ok
                   THEN Json(201, [success |-> TRUE, data |-> o.result.value,
                                   message |-> "Registered"])
                   ELSE handleError(o.result.error)
        IN /\ o.result.ok => Len(users) < MaxUsers
           /\ users' = o.users
           /\ held' = IF o.result.ok THEN o.result.value.token ELSE held
           /\ passwords' = IF o.result.ok
                            THEN Append(passwords, [current |-> data.password,
                                                    earlier |-> {}])
                            ELSE passwords
           /\ racing' = [racing EXCEPT ![p] = Done(data, res, TRUE)]
    /\ UNCHANGED <<clock, articles, serial, last>>

\* the response of a racing call is delivered
RaceReturn(p) ==
    /\ racing[p].pc = "done"
    /\ racing' = [racing EXCEPT ![p] = Idle]
    /\ UNCHANGED <<users, clock, held, articles, serial, passwords, last>>

\* the response is delivered and the call's context is discarded
Complete ==
    /\ last # NoExchange
    /\ last' = NoExchange
    /\ UNCHANGED <<users, clock, held, articles, serial, racing, passwords>>

(***************************************************************************)
(* The claims are checked under restrictions of the program to the routes  *)
(* they are about, each with the inputs that make its cases happen; Spec,  *)
(* the program with all its routes, is defined after them.                 *)
(***************************************************************************)
\* The account routes, called at one instant
NextAccount ==
    \/ Complete
    \/ PostRegister
    \/ PostLogin
    \/ PutPassword

SpecAccount == Init /\ [][NextAccount]_vars

\* The gated routes over time, with one account that registers and logs in
GateRegisterInputs ==
    {RegisterData(EmailA, UserAnn, NameAl, PwSecret, TRUE),
     RegisterData(EmailBad, UserAnn, NameAl, PwSecret, TRUE)}

GateLoginInputs == {LoginData(EmailA, PwSecret), LoginData(EmailA, PwLong1)}

NextGate ==
    \/ Tick
    \/ Complete
    \/ PostRegisterOf(GateRegisterInputs)
    \/ PostLoginOf(GateLoginInputs)
    \/ GetVerify
    \/ GetArticle
    \/ RoleGated

SpecGate == Init /\ [][NextGate]_vars

\* One account over time: it registers, logs in, reads and edits its
\* profile and changes its password, and its tokens are presented again
ProfileRegisterInputs ==
    {RegisterData(EmailA, UserAnn, NameAl, PwSecret, TRUE) @@ [role |-> "ADMIN"],
     RegisterData(EmailB, UserAnn, NameAl, PwSecret, TRUE),
     RegisterData(EmailA, UserDash, NameAl, PwSecret, TRUE)}

ProfileLoginInputs ==
    {LoginData(EmailA, PwSecret), LoginData(EmailA, PwLong2), LoginData(EmailBad, PwSecret)}

NextProfile ==
    \/ Tick
    \/ Complete
    \/ PostRegisterOf(ProfileRegisterInputs)
    \/ PostLoginOf(ProfileLoginInputs)
    \/ PutPasswordOf(FewPasswordCalls)
    \/ GetMe
    \/ PutProfile
    \/ PostLogout
    \/ CallGetUserByToken

SpecProfile == Init /\ [][NextProfile]_vars

\* Register calls that interleave at their awaits
\* Two accounts at one instant under all five operations of the Account
\* Service
StoreRegisterInputs ==
    {RegisterData(EmailA, UserAnn, NameAl, PwSecret, TRUE),
     RegisterData(EmailA, UserBob, NameBo, PwSecret, TRUE),
     RegisterData(EmailB, UserBob, NameBo, PwSecret, TRUE)}

StoreLoginInputs == {LoginData(EmailA, PwSecret), LoginData(EmailB, PwSecret)}

NextStore ==
    \/ Complete
    \/ PostRegisterOf(StoreRegisterInputs)
    \/ PostLoginOf(StoreLoginInputs)
    \/ PutPasswordOf(FewPasswordCalls)
    \/ GetMe
    \/ PutProfile

SpecStore == Init /\ [][NextStore]_vars

(***************************************************************************)
(* The article routes.  They run over the database the seed script leaves: *)
(* its accounts of role ADMIN, EDITOR and USER, with the sample articles   *)
(* removed again.                                                          *)
(***************************************************************************)
MaxArticles == 2

SeedAccount(id, email, username, displayName, password, role) ==
    [id |-> id, email |-> email, username |-> username, displayName |-> displayName,
     passwordHash |-> hashPassword(password, "salt1"), role |-> role,
     bio |-> <<"b","i","o">>, avatar |-> AvatarUrl, isEmailVerified |-> TRUE,
     lastLoginAt |-> NullTime, updatedAt |-> 0]

SeedPasswords ==
    <<<<"a","d","m","i","n","1","2","3">>,
      <<"e","d","i","t","o","r","1","2","3">>,
      <<"u","s","e","r","1","2","3">>>>

SeedUsers ==
    <<SeedAccount(1, <<"a","d","m","i","n","@","e","x","a","m","p","l","e",".","c","o","m">>,
                  <<"a","d","m","i","n">>, <<"A","d","m","i","n">>,
                  SeedPasswords[1], "ADMIN"),
      SeedAccount(2, <<"e","d","i","t","o","r","@","e","x","a","m","p","l","e",".","c","o","m">>,
                  <<"e","d","i","t","o","r">>, <<"E","d","i","t","o","r">>,
                  SeedPasswords[2], "EDITOR"),
      SeedAccount(3, <<"u","s","e","r","@","e","x","a","m","p","l","e",".","c","o","m">>,
                  <<"t","e","s","t","u","s","e","r">>, <<"T","e","s","t">>,
                  SeedPasswords[3], "USER")>>

InitSeeded ==
    /\ users = SeedUsers
    /\ clock = 0
    /\ held = NoHeld
    /\ articles = << >>
    /\ serial = 0
    /\ passwords = [i \in 1..Len(SeedUsers) |->
                      [current |-> SeedPasswords[i], earlier |-> {}]]
    /\ last = NoExchange
    /\ racing = [p \in Procs |-> Idle]

\* Titles: two that give the slug "a", one that gives "a-1", one without a
\* letter or digit, one of a character of the CJK range, and the empty one
TitleA == <<"A">>
TitleA2 == <<"a","!">>
TitleA1 == <<"a"," ","1">>
TitleBang == <<"!">>
TitleCjk == <<"U+4E2D">>
TitleEmpty == << >>

ArticleData(title) == [title |-> title, content |-> <<"x">>, category |-> <<"c">>]

CreateInputs ==
    {ArticleData(TitleA), ArticleData(TitleA1), ArticleData(TitleBang),
     ArticleData(TitleEmpty),
     [title |-> TitleA2, content |-> <<"x">>, category |-> <<"c">>,
      isPublished |-> TRUE]}

\* Bodies of PUT /api/articles/:id: a new title, new content, a flag, none,
\* an empty title, and keys the schema does not know
UpdateInputs ==
    {[title |-> TitleA], [title |-> TitleA1], [content |-> <<"y">>],
     [isPublished |-> TRUE], EmptyBody, [title |-> TitleEmpty],
     [authorId |-> 1, viewCount |-> 7, slug |-> <<"s">>]}

\* The callers of the article routes: none, the admin with a token that
\* says USER, the editor, the user with a token that says ADMIN, and an
\* account that is not stored
WriterHeaders ==
    {NoHeader}
    \cup {BearerHeader(t) : t \in GoodMinted(clock, {1, 2}, {"USER"})}
    \cup {BearerHeader(t) : t \in GoodMinted(clock, {3, Len(SeedUsers) + 1}, {"ADMIN"})}

AuthorHeaders ==
    {NoHeader}
    \cup {BearerHeader(t) : t \in GoodMinted(clock, {2, Len(SeedUsers) + 1}, {"USER"})}
    \cup {BearerHeader(t) : t \in GoodMinted(clock, {3}, {"ADMIN"})}

ArticleIds == 1..(MaxArticles + 1)

ArticleExchange(op, id, req, g, res, thrown) ==
    Exchange(op, req, g.req.user, g.next, IF g.next = 0 THEN g.res ELSE res,
             users, clock)
    @@ [params |-> [id |-> id], articlesBefore |-> articles, thrown |-> thrown]

NoError == [name |-> "none"]

Thrown(result) == IF result.ok THEN NoError ELSE result.error

\* POST /api/articles
PostArticleOf(headers, inputs) ==
    \E header \in headers, data \in inputs :
        LET req == Request(header, data)
            g == authenticateToken(req, clock)
            o == createArticle(articles, users, data, g.req.user.userId,
                               serial + 1, clock)
            res == IF o.result.ok
                   THEN Json(201, [success |-> TRUE, data |-> o.result.value,
                                   message |-> "Article created"])
                   ELSE handleArticleError(o.result.error)
            ran == g.next > 0
        IN /\ last = NoExchange
           /\ (ran /\ o.result.ok) => serial < MaxArticles
           /\ articles' = IF ran THEN o.articles ELSE articles
           /\ serial' = IF ran /\ o.result.ok THEN serial + 1 ELSE serial
           /\ last' = ArticleExchange("POST /api/articles", NoId, req, g, res,
                                      IF ran THEN Thrown(o.result) ELSE NoError)
           /\ UNCHANGED <<users, clock, held, racing, passwords>>

\* PUT /api/articles/:id
PutArticleOf(headers, inputs) ==
    \E header \in headers, id \in ArticleIds, data \in inputs :
        LET req == Request(header, data)
            g == authenticateToken(req, clock)
            o == updateArticle(articles, users, id, data, g.req.user.userId, clock)
            res == IF o.result.ok
                   THEN Json(200, [success |-> TRUE, data |-> o.result.value,
                                   message |-> "Article updated"])
                   ELSE handleArticleError(o.result.error)
            ran == g.next > 0
        IN /\ last = NoExchange
           /\ articles' = IF ran THEN o.articles ELSE articles
           /\ last' = ArticleExchange("PUT /api/articles/:id", id, req, g, res,
                                      IF ran THEN Thrown(o.result) ELSE NoError)
           /\ UNCHANGED <<users, clock, held, serial, racing, passwords>>

\* DELETE /api/articles/:id
DeleteArticleOf(headers) ==
    \E header \in headers, id \in ArticleIds :
        LET req == Request(header, Undefined)
            g == authenticateToken(req, clock)
            o == deleteArticle(articles, users, id, g.req.user.userId)
            res == IF o.result.ok
                   THEN Json(200, [success |-> TRUE, message |-> "Article deleted"])
                   ELSE handleArticleError(o.result.error)
            ran == g.next > 0
        IN /\ last = NoExchange
           /\ articles' = IF ran THEN o.articles ELSE articles
           /\ last' = ArticleExchange("DELETE /api/articles/:id", id, req, g, res,
                                      IF ran THEN Thrown(o.result) ELSE NoError)
           /\ UNCHANGED <<users, clock, held, serial, racing, passwords>>

PostArticle == PostArticleOf(AuthorHeaders, CreateInputs)

PutArticle == PutArticleOf(WriterHeaders, UpdateInputs)

DeleteArticle == DeleteArticleOf(WriterHeaders)

\* Articles of one title written by the editor and the user, and edited
\* and deleted by every caller
NextArticle ==
    \/ Complete
    \/ PostArticleOf(AuthorHeaders, {ArticleData(TitleA), ArticleData(TitleEmpty)})
    \/ PutArticleOf(WriterHeaders,
                    {[isPublished |-> TRUE], [title |-> TitleA1], [title |-> TitleEmpty],
                     [authorId |-> 1, viewCount |-> 7, slug |-> <<"s">>]})
    \/ DeleteArticleOf(WriterHeaders)

SpecArticle == InitSeeded /\ [][NextArticle]_vars

(***************************************************************************)
(* createArticle, await by await, for calls of the editor that run side by *)
(* side.                                                                   *)
(***************************************************************************)
Editor == 2

TitleRaceInputs == {ArticleData(TitleA), ArticleData(TitleA2), ArticleData(TitleEmpty)}

Probing(data, slug, counter) ==
    [pc |-> "probe", data |-> data, slug |-> slug, counter |-> counter]

Writing(data, uniqueSlug) == [pc |-> "write", data |-> data, uniqueSlug |-> uniqueSlug]

Written(data, uniqueSlug, res, thrown) ==
    [pc |-> "done", data |-> data, uniqueSlug |-> uniqueSlug, res |-> res,
     thrown |-> thrown]

\* createArticleSchema.parse, and the slug of the title
SlugStart(p) ==
    /\ racing[p] = Idle
    /\ last = NoExchange
    /\ \E data \in TitleRaceInputs :
        racing' = [racing EXCEPT ![p] =
            IF createArticleSchema(data) # << >>
            THEN Written(data, << >>,
                         handleArticleError(ZodError(createArticleSchema(data))),
                         ZodError(createArticleSchema(data)))
            ELSE Probing(data, baseSlug(createArticleParsed(data).title, clock), 0)]
    /\ UNCHANGED <<users, clock, held, articles, serial, passwords, last>>

\* one turn of the loop: await prisma.article.findUnique({where: {slug}})
SlugProbe(p) ==
    /\ racing[p].pc = "probe"
    /\ LET uniqueSlug == numbered(racing[p].slug, racing[p].counter)
       IN racing' = [racing EXCEPT ![p] =
            IF findArticleBySlug(articles, uniqueSlug) = {}
            THEN Writing(@.data, uniqueSlug)
            ELSE Probing(@.data, @.slug, @.counter + 1)]
    /\ UNCHANGED <<users, clock, held, articles, serial, passwords, last>>

\* await prisma.article.create, respond
SlugCreate(p) ==
    /\ racing[p].pc = "write"
    /\ LET data == racing[p].data
           row == newArticle(createArticleParsed(data), racing[p].uniqueSlug,
                             Editor, serial + 1, clock)
           written == articleWrite(articles, users, row)
           res == IF written.ok
                  THEN Json(201, [success |-> TRUE,
                                  data |-> withAuthor(users, written.value),
                                  message |-> "Article created"])
                  ELSE handleArticleError(written.error)
       IN /\ written.ok => serial < MaxArticles
          /\ articles' = IF written.ok THEN Append(articles, written.value)
                         ELSE articles
          /\ serial' = IF written.ok THEN serial + 1 ELSE serial
          /\ racing' = [racing EXCEPT ![p] =
                          Written(data, @.uniqueSlug, res, Thrown(written))]
    /\ UNCHANGED <<users, clock, held, passwords, last>>

\* no call is under way side by side
Quiet == \A p \in Procs : racing[p] = Idle

EditorHeaders == {BearerHeader(t) : t \in GoodMinted(clock, {Editor}, {"USER"})}

\* The editor creates, retitles and deletes articles one call at a time,
\* and between such calls runs createArticle calls side by side
NextSlug ==
    \/ Complete
    \/ Quiet /\ PostArticleOf(EditorHeaders,
                              {ArticleData(TitleA), ArticleData(TitleA1),
                               ArticleData(TitleBang), ArticleData(TitleCjk)})
    \/ Quiet /\ PutArticleOf(EditorHeaders, {[title |-> TitleA], [title |-> TitleA1]})
    \/ Quiet /\ DeleteArticleOf(EditorHeaders)
    \/ \E p \in Procs : SlugStart(p)
    \/ \E p \in Procs : SlugProbe(p)
    \/ \E p \in Procs : SlugCreate(p)
    \/ \E p \in Procs : RaceReturn(p)

SpecSlug == InitSeeded /\ [][NextSlug]_vars

(***************************************************************************)
(* login and changePassword of the seeded user, await by await, for calls  *)
(* that run side by side.  Each call reads the account, works on what it   *)
(* read, and later writes; the write names the columns it sets.            *)
(***************************************************************************)
Member == 3

PwNew == PwSecret

MemberLogins ==
    {LoginData(SeedUsers[Member].email, SeedPasswords[Member]),
     LoginData(SeedUsers[Member].email, PwNew)}

MemberPasswordInputs == {ChangePasswordData(SeedPasswords[Member], PwNew)}

MemberHeaders == {BearerHeader(t) : t \in GoodMinted(clock, {Member}, {"USER"})}

LoginRead(data, user) == [pc |-> "login write", data |-> data, user |-> user]

PasswordRead(data, user, newPasswordHash) ==
    [pc |-> "password write", data |-> data, user |-> user,
     newPasswordHash |-> newPasswordHash]

Finished(op, data, res, wrote, at) ==
    [pc |-> "done", op |-> op, data |-> data, res |-> res, wrote |-> wrote, at |-> at]

\* prisma.user.update({where: {id}, data}): the row with the columns of data
\* set, the others as they are stored now
userUpdate(store, id, data) ==
    [store EXCEPT ![id] = [f \in DOMAIN @ |-> IF f \in DOMAIN data THEN data[f] ELSE @[f]]]

\* the write of login putting back the whole account as login read it
loginWrite_WholeRow(store, user, now) ==
    [store EXCEPT ![user.id] = [user EXCEPT !.lastLoginAt = now]]

\* the write of login: data: { lastLoginAt: new Date() }
loginWrite(store, user, now) == userUpdate(store, user.id, [lastLoginAt |-> now])

\* the write of changePassword: data: { passwordHash, updatedAt: new Date() }
passwordWrite(store, user, newPasswordHash, now) ==
    userUpdate(store, user.id, [passwordHash |-> newPasswordHash, updatedAt |-> now])

\* POST /api/auth/login up to its write: parse, findUnique, verifyPassword
LoginFind(p) ==
    /\ racing[p] = Idle
    /\ \E data \in MemberLogins :
        LET found == findByEmail(users, data.email)
            user == users[CHOOSE i \in found : TRUE]
            refused == handleError(AuthError("Wrong email or password",
                                             "INVALID_CREDENTIALS", Undefined))
        IN racing' = [racing EXCEPT ![p] =
             IF loginSchema(data) # << >>
             THEN Finished("login", data, handleError(ZodError(loginSchema(data))),
                           FALSE, clock)
             ELSE IF found = {} \/ ~verifyPassword(data.password, user.passwordHash)
             THEN Finished("login", data, refused, FALSE, clock)
             ELSE LoginRead(data, user)]
    /\ UNCHANGED <<users, clock, held, articles, serial, passwords, last>>

\* await prisma.user.update, generateToken, respond
LoginWrite(p) ==
    /\ racing[p].pc = "login write"
    /\ LET user == racing[p].user
           written == loginWrite(users, user, clock)
           updatedUser == written[user.id]
           token == generateToken([userId |-> user.id, email |-> user.email,
                                   role |-> user.role], clock)
           res == Json(200, [success |-> TRUE,
                             data |-> [user |-> excludePassword(updatedUser),
                                       token |-> token],
                             message |-> "Logged in"])
       IN /\ users' = written
          /\ held' = token
          /\ racing' = [racing EXCEPT ![p] = Finished("login", @.data, res, TRUE, clock)]
    /\ UNCHANGED <<clock, articles, serial, passwords, last>>

\* PUT /api/auth/password up to its write: the gate, parse, findUnique,
\* verifyPassword, hashPassword
PasswordFind(p) ==
    /\ racing[p] = Idle
    /\ \E header \in MemberHeaders, data \in MemberPasswordInputs, salt \in {"salt2"} :
        LET g == authenticateToken(Request(header, data), clock)
            found == findById(users, g.req.user.userId)
            user == users[CHOOSE i \in found : TRUE]
        IN racing' = [racing EXCEPT ![p] =
             IF g.next = 0
             THEN Finished("changePassword", data, g.res, FALSE, clock)
             ELSE IF changePasswordSchema(data) # << >>
             THEN Finished("changePassword", data,
                           handleError(ZodError(changePasswordSchema(data))), FALSE, clock)
             ELSE IF found = {}
             THEN Finished("changePassword", data,
                           handleError(AuthError("User does not exist",
                                                 "USER_NOT_FOUND", Undefined)),
                           FALSE, clock)
             ELSE IF ~verifyPassword(data.oldPassword, user.passwordHash)
             THEN Finished("changePassword", data,
                           handleError(AuthError("Current password is wrong",
                                                 "INVALID_PASSWORD", Undefined)),
                           FALSE, clock)
             ELSE PasswordRead(data, user, hashPassword(data.newPassword, salt))]
    /\ UNCHANGED <<users, clock, held, articles, serial, passwords, last>>

\* await prisma.user.update, respond
PasswordWrite(p) ==
    /\ racing[p].pc = "password write"
    /\ LET user == racing[p].user
           data == racing[p].data
       IN /\ users' = passwordWrite(users, user, racing[p].newPasswordHash, clock)
          /\ passwords' = [passwords EXCEPT ![user.id] =
                             [current |-> data.newPassword,
                              earlier |-> @.earlier \cup {@.current}]]
          /\ racing' = [racing EXCEPT ![p] =
                Finished("changePassword", data,
                         Json(200, [success |-> TRUE, message |-> "Password changed"]),
                         TRUE, clock)]
    /\ UNCHANGED <<clock, held, articles, serial, last>>

NextMember ==
    \/ Tick
    \/ \E p \in Procs : LoginFind(p)
    \/ \E p \in Procs : LoginWrite(p)
    \/ \E p \in Procs : PasswordFind(p)
    \/ \E p \in Procs : PasswordWrite(p)
    \/ \E p \in Procs : RaceReturn(p)

SpecMember == InitSeeded /\ [][NextMember]_vars

(***************************************************************************)
(* getArticleBySlug, await by await, for reads that run side by side.      *)
(***************************************************************************)
SlugA == <<"a">>
SlugA1 == <<"a","-","1">>
SlugNone == <<"n","o">>

ReadSlugs == {SlugA, SlugA1, SlugNone}

Found(slug, article) == [pc |-> "view write", slug |-> slug, article |-> article]

Read(slug, res, wrote) == [pc |-> "done", op |-> "getArticleBySlug", slug |-> slug,
                           res |-> res, wrote |-> wrote]

NotFound ==
    Json(404, [success |-> FALSE,
               error |-> [code |-> "ARTICLE_NOT_FOUND",
                          message |-> "Article does not exist"]])

\* an increment that writes the count the call read, plus one
viewWrite_FromRead(store, article) ==
    IF findArticleById(store, article.id) = {}
    THEN Throw(OtherError("PrismaClientKnownRequestError: P2025"))
    ELSE LET i == CHOOSE j \in findArticleById(store, article.id) : TRUE
         IN Ok([store EXCEPT ![i].viewCount = article.viewCount + 1])

\* prisma.article.update({where: {id}, data: {viewCount: {increment: 1}}}):
\* the stored count plus one; the store throws when no row has the id
viewWrite(store, article) ==
    IF findArticleById(store, article.id) = {}
    THEN Throw(OtherError("PrismaClientKnownRequestError: P2025"))
    ELSE LET i == CHOOSE j \in findArticleById(store, article.id) : TRUE
         IN Ok([store EXCEPT ![i].viewCount = @ + 1])

\* GET /api/articles/slug/:slug up to its write: optionalAuth, findUnique
ViewFind(p) ==
    /\ racing[p] = Idle
    /\ last = NoExchange
    /\ \E slug \in ReadSlugs :
        LET g == optionalAuth(Request(NoHeader, Undefined), clock)
            found == findArticleBySlug(articles, slug)
            article == withAuthor(users, articles[CHOOSE i \in found : TRUE])
        IN racing' = [racing EXCEPT ![p] =
             IF found = {} THEN Read(slug, NotFound, FALSE)
             ELSE Found(slug, article)]
    /\ UNCHANGED <<users, clock, held, articles, serial, passwords, last>>

\* await prisma.article.update, respond with the article as it was read
ViewWrite(p) ==
    /\ racing[p].pc = "view write"
    /\ LET article == racing[p].article
           written == viewWrite(articles, article)
       IN /\ articles' = IF written.ok THEN written.value ELSE articles
          /\ racing' = [racing EXCEPT ![p] =
                Read(@.slug,
                     IF written.ok THEN Json(200, [success |-> TRUE, data |-> article])
                     ELSE handleArticleError(written.error),
                     written.ok)]
    /\ UNCHANGED <<users, clock, held, serial, passwords, last>>

\* The editor writes articles, one call at a time; then readers, one call
\* each, read them by slug side by side and by id
NextViews ==
    \/ Complete
    \/ Quiet /\ PostArticleOf(EditorHeaders, {ArticleData(TitleA), ArticleData(TitleA1)})
    \/ GetArticleOf({NoHeader}, ArticleIds)
    \/ \E p \in Procs : ViewFind(p)
    \/ \E p \in Procs : ViewWrite(p)

SpecViews == InitSeeded /\ [][NextViews]_vars

(***************************************************************************)
(* GET /api/articles: the list, page by page.                              *)
(***************************************************************************)
\* The queries as parseQueryParams leaves them: page and pageSize absent,
\* below, at and above their limits, with the default order and no filter;
\* and some pages under each filter and each order
ListQueries ==
    {EmptyBody, [sortBy |-> "slug"]}
    \cup {[page |-> n] : n \in 0..(MaxArticles + 2)}
    \cup {[pageSize |-> n] : n \in {0, 1, PAGESIZE_MAX, PAGESIZE_MAX + 1}}
    \cup {[page |-> n, pageSize |-> m] : n \in 1..(MaxArticles + 2), m \in 1..MaxArticles}
    \cup {[page |-> n, pageSize |-> 1] @@ f :
             n \in 1..2, f \in {[authorId |-> Editor], [isPublished |-> TRUE]}}
    \cup {[page |-> n, pageSize |-> 1, sortBy |-> k, sortOrder |-> o] :
             n \in 1..2, k \in {"createdAt", "viewCount"}, o \in {"asc", "desc"}}

\* GET /api/articles
GetArticles ==
    \E query \in ListQueries :
        LET r == getArticles(articles, users, query)
            res == IF r.ok THEN Json(200, [success |-> TRUE, data |-> r.value])
                   ELSE handleArticleError(r.error)
        IN /\ last = NoExchange
           /\ last' = [op |-> "GET /api/articles", query |-> query, res |-> res,
                       articlesBefore |-> articles, at |-> clock]
           /\ UNCHANGED <<users, clock, held, articles, serial, racing, passwords>>

WriterPairHeaders ==
    {BearerHeader(t) : t \in GoodMinted(clock, {Editor, Member}, {"USER"})}

\* The editor and the user write articles, published or not, at several
\* instants, and the list is read
NextList ==
    \/ Tick
    \/ Complete
    \/ PostArticleOf(WriterPairHeaders,
                     {ArticleData(TitleA),
                      ArticleData(TitleA) @@ [isPublished |-> TRUE]})
    \/ GetArticles

SpecList == InitSeeded /\ [][NextList]_vars

NextRace ==
    \/ \E p \in Procs : RaceStart(p)
    \/ \E p \in Procs : RaceCheckEmail(p)
    \/ \E p \in Procs : RaceCheckUsername(p)
    \/ \E p \in Procs : RaceCreate(p)
    \/ \E p \in Procs : RaceReturn(p)

SpecRace == Init /\ [][NextRace]_vars

(***************************************************************************)
(* The whole program, over a database that is empty or seeded.             *)
(***************************************************************************)
Next ==
    \/ Tick
    \/ Complete
    \/ PostRegister
    \/ PostLogin
    \/ PutPassword
    \/ GetMe
    \/ PutProfile
    \/ PostLogout
    \/ CallGetUserByToken
    \/ GetVerify
    \/ GetArticle
    \/ RoleGated
    \/ GetArticles
    \/ PostArticle
    \/ PutArticle
    \/ DeleteArticle
    \/ \E p \in Procs : RaceStart(p)
    \/ \E p \in Procs : RaceCheckEmail(p)
    \/ \E p \in Procs : RaceCheckUsername(p)
    \/ \E p \in Procs : RaceCreate(p)
    \/ \E p \in Procs : SlugStart(p)
    \/ \E p \in Procs : SlugProbe(p)
    \/ \E p \in Procs : SlugCreate(p)
    \/ \E p \in Procs : LoginFind(p)
    \/ \E p \in Procs : LoginWrite(p)
    \/ \E p \in Procs : PasswordFind(p)
    \/ \E p \in Procs : PasswordWrite(p)
    \/ \E p \in Procs : ViewFind(p)
    \/ \E p \in Procs : ViewWrite(p)
    \/ \E p \in Procs : RaceReturn(p)

Spec == (Init \/ InitSeeded) /\ [][Next]_vars

(***************************************************************************)
(* What the claims speak of.                                               *)
(***************************************************************************)
IsRegister == last.op = "POST /api/auth/register"
IsLogin == last.op = "POST /api/auth/login"
IsVerify == last.op = "GET /api/auth/verify"
IsArticle == last.op = "GET /api/articles/:id"
IsRoleGated == last.op = "requireRole"

\* The error kind of a response ("none" for a success)
ErrorCode(res) == IF res.body.success THEN "none" ELSE res.body.error.code

\* The identity a payload stands for
Identity(payload) ==
    [userId |-> payload.userId, email |-> payload.email, role |-> payload.role]

\* The call carries a bearer credential: "Bearer " followed by something
HasBearer(h) ==
    /\ h # NoHeader
    /\ StartsWith(h.text, Bearer)
    /\ (Len(h.text) > Len(Bearer) \/ h.jwt # NoJwt)

\* The credential after the prefix
Credential(h) == TokenString(SubSeq(h.text, Len(Bearer) + 1, Len(h.text)), h.jwt)

\* The call carries a bearer credential that verifyToken accepts
Verified(h, now) == HasBearer(h) /\ verifyToken(Credential(h), now).ok

EmailTaken(store, email) == \E i \in 1..Len(store) : store[i].email = email
UsernameTaken(store, username) == \E i \in 1..Len(store) : store[i].username = username

(***************************************************************************)
(* C1.  Token round trip: a token issued by generateToken (at register or  *)
(* login) and presented before its expiry is accepted by verifyToken, and  *)
(* the verified payload carries the account id, email and role issued.     *)
(***************************************************************************)
C1_TokenRoundTrip ==
    (/\ IsVerify
     /\ held # NoHeld
     /\ last.req.headers.authorization = BearerHeader(held)
     /\ last.at < held.jwt.exp)
    => (/\ last.handlerRuns = 1
        /\ last.res.status = 200
        /\ last.user = Identity(held.jwt))

(***************************************************************************)
(* C2.  A valid registration with an unused email and username succeeds,   *)
(* and its token is accepted by verifyToken and by authenticateToken,      *)
(* decoding to the id, email and role of the account just created.         *)
(***************************************************************************)
C2_RegisterTokenAccepted ==
    (/\ IsRegister
     /\ registerSchema(last.req.body) = << >>
     /\ ~EmailTaken(last.before, last.req.body.email)
     /\ ~UsernameTaken(last.before, last.req.body.username))
    => (/\ last.res.status = 201
        /\ users = Append(last.before, users[Len(users)])
        /\ LET created == users[Len(users)]
               token == last.res.body.data.token
               v == verifyToken(token, last.at)
               g == authenticateToken(Request(BearerHeader(token), Undefined), last.at)
           IN /\ v.ok
              /\ Identity(v.value) = [userId |-> created.id, email |-> created.email,
                                      role |-> created.role]
              /\ g.next = 1
              /\ g.req.user = Identity(v.value))

(***************************************************************************)
(* C3.  Every token issued at register and at login carries issuer         *)
(* "blog-backend", audience "blog-frontend" (those verifyToken requires)   *)
(* and an expiry equal to the issuance time plus the lifetime.             *)
(***************************************************************************)
C3_IssuedTokenClaims ==
    ((IsRegister \/ IsLogin) /\ last.res.body.success)
    => LET jwt == last.res.body.data.token.jwt IN
       /\ jwt.iat = last.at
       /\ jwt.exp = last.at + JWT_EXPIRES_IN
       /\ jwt.iss = "blog-backend"
       /\ jwt.aud = "blog-frontend"

(***************************************************************************)
(* C4.  register (of a well-formed input) decides its uniqueness failure   *)
(* email first: a taken email fails EMAIL_EXISTS whatever the username; a  *)
(* fresh email with a taken username fails USERNAME_EXISTS; either way no  *)
(* account is created and no token is issued.                              *)
(***************************************************************************)
C4_UniquenessEmailFirst ==
    (IsRegister /\ registerSchema(last.req.body) = << >>)
    => LET data == last.req.body
           rejected == /\ users = last.before
                       /\ last.res.status = 400
                       /\ "data" \notin DOMAIN last.res.body
       IN /\ EmailTaken(last.before, data.email)
               => (ErrorCode(last.res) = "EMAIL_EXISTS" /\ rejected)
          /\ (~EmailTaken(last.before, data.email)
              /\ UsernameTaken(last.before, data.username))
               => (ErrorCode(last.res) = "USERNAME_EXISTS" /\ rejected)

\* a registration whose email and username are both taken was refused for
\* its email
C4_Witness ==
    /\ IsRegister
    /\ registerSchema(last.req.body) = << >>
    /\ EmailTaken(last.before, last.req.body.email)
    /\ UsernameTaken(last.before, last.req.body.username)
    /\ ErrorCode(last.res) = "EMAIL_EXISTS"

(***************************************************************************)
(* C5.  Login indistinguishability: a failed login of a well-formed input  *)
(* gets, whether the email is known or not, the very response the same     *)
(* input gets from a store that holds no such email (INVALID_CREDENTIALS,  *)
(* status 400, same message, no field), and changes no stored account.     *)
(***************************************************************************)
C5_LoginIndistinguishable ==
    (IsLogin /\ loginSchema(last.req.body) = << >> /\ ~last.res.body.success)
    => /\ last.res = handleError(login(<< >>, last.req.body, last.at).result.error)
       /\ ErrorCode(last.res) = "INVALID_CREDENTIALS"
       /\ last.res.status = 400
       /\ users = last.before

\* a login with a known email and a wrong password was refused
C5_Witness ==
    /\ IsLogin
    /\ loginSchema(last.req.body) = << >>
    /\ EmailTaken(last.before, last.req.body.email)
    /\ ~last.res.body.success

(***************************************************************************)
(* C6.  After any sequence of register and changePassword on an account,   *)
(* login succeeds with exactly the most recently set password and fails    *)
(* INVALID_CREDENTIALS with every earlier password.                        *)
(***************************************************************************)
C6_LoginOnlyLatestPassword ==
    (/\ IsLogin
     /\ loginSchema(last.req.body) = << >>
     /\ EmailTaken(users, last.req.body.email))
    => LET id == CHOOSE i \in 1..Len(users) : users[i].email = last.req.body.email
           password == last.req.body.password
       IN /\ last.res.body.success <=> password = passwords[id].current
          /\ password \in passwords[id].earlier
               => ErrorCode(last.res) = "INVALID_CREDENTIALS"

(***************************************************************************)
(* C7.  Mandatory gate safety: behind authenticateToken the handler runs   *)
(* only for a call whose bearer token verifyToken accepts, the identity    *)
(* attached is then that of the verified payload, and on NO_TOKEN or       *)
(* INVALID_TOKEN the handler does not run and no identity is attached.     *)
(***************************************************************************)
IsMandatory == IsVerify \/ (IsRoleGated /\ last.first = "authenticateToken")

C7_GateSafety ==
    IsMandatory
    => LET h == last.req.headers.authorization IN
       /\ (last.handlerRuns > 0 \/ last.user # NoUser)
            => (/\ Verified(h, last.at)
                /\ last.user = Identity(verifyToken(Credential(h), last.at).value))
       /\ ErrorCode(last.res) \in {"NO_TOKEN", "INVALID_TOKEN"}
            => (last.handlerRuns = 0 /\ last.user = NoUser)

\* a gated handler ran for a verified caller
C7_Witness ==
    /\ IsVerify
    /\ last.handlerRuns = 1
    /\ last.user # NoUser
    /\ last.res.status = 200

(***************************************************************************)
(* C8.  authenticateToken fails NO_TOKEN exactly when the call carries no  *)
(* bearer credential, INVALID_TOKEN exactly when it carries one that       *)
(* verifyToken rejects, and rejects a call with nothing else.              *)
(***************************************************************************)
C8_GateErrors ==
    IsVerify
    => LET h == last.req.headers.authorization IN
       /\ ErrorCode(last.res) = "NO_TOKEN" <=> ~HasBearer(h)
       /\ ErrorCode(last.res) = "INVALID_TOKEN" <=> (HasBearer(h) /\ ~Verified(h, last.at))
       /\ last.handlerRuns = 0
            => (/\ ErrorCode(last.res) \in {"NO_TOKEN", "INVALID_TOKEN"}
                /\ last.res.status = 401)

\* a bearer token with the right key, issuer and audience was refused as
\* INVALID_TOKEN in the second it expires
C8_Witness ==
    /\ IsVerify
    /\ HasBearer(last.req.headers.authorization)
    /\ last.req.headers.authorization.jwt # NoJwt
    /\ last.req.headers.authorization.jwt.exp = last.at
    /\ ErrorCode(last.res) = "INVALID_TOKEN"

(***************************************************************************)
(* C9.  Role gate: requireRole(roles) fails NOT_AUTHENTICATED if no        *)
(* identity is attached, INSUFFICIENT_PERMISSIONS if the identity's role   *)
(* is not in roles, and lets the handler run only for a role in roles.     *)
(***************************************************************************)
\* the chain reached requireRole: the gate before it called next()
ReachedRoleGate == IsRoleGated /\ (last.first = "optionalAuth" \/ last.user # NoUser)

C9_RoleGate ==
    ReachedRoleGate
    => /\ last.user = NoUser
            => (/\ ErrorCode(last.res) = "NOT_AUTHENTICATED"
                /\ last.res.status = 401
                /\ last.handlerRuns = 0)
       /\ (last.user # NoUser /\ last.user.role \notin last.roles)
            => (/\ ErrorCode(last.res) = "INSUFFICIENT_PERMISSIONS"
                /\ last.res.status = 403
                /\ last.handlerRuns = 0)
       /\ last.handlerRuns > 0
            => (last.user # NoUser /\ last.user.role \in last.roles)
       /\ (last.user # NoUser /\ last.user.role \in last.roles)
            => (last.handlerRuns = 1 /\ last.res.status = 200)

\* a verified USER was refused by the ADMIN-only gate
C9_Witness ==
    /\ IsRoleGated
    /\ last.first = "authenticateToken"
    /\ last.roles = {"ADMIN"}
    /\ last.user # NoUser
    /\ last.user.role = "USER"
    /\ ErrorCode(last.res) = "INSUFFICIENT_PERMISSIONS"

(***************************************************************************)
(* C10.  optionalAuth never rejects: the handler runs exactly once for     *)
(* every call, with an identity attached if and only if the call carries   *)
(* a bearer token that verifyToken accepts.                                *)
(***************************************************************************)
C10_OptionalGate ==
    IsArticle
    => LET h == last.req.headers.authorization IN
       /\ last.handlerRuns = 1
       /\ last.res.status \in {200, 404}
       /\ last.user # NoUser <=> Verified(h, last.at)
       /\ last.user # NoUser
            => last.user = Identity(verifyToken(Credential(h), last.at).value)

\* a call with a bearer token that does not verify went through unidentified
C10_Witness ==
    /\ IsArticle
    /\ HasBearer(last.req.headers.authorization)
    /\ ~Verified(last.req.headers.authorization, last.at)
    /\ last.handlerRuns = 1
    /\ last.user = NoUser

(***************************************************************************)
(* C11.  verifyToken has exactly two outcomes: a payload, or the single    *)
(* error INVALID_TOKEN with one message, whether the token is malformed,   *)
(* forged, of a wrong or missing issuer or audience, or expired; the gate  *)
(* answers all of them with the same response.                             *)
(***************************************************************************)
InvalidToken == AuthError("Token invalid or expired", "INVALID_TOKEN", Undefined)

C11_SingleErrorKind ==
    ((IsVerify \/ IsArticle) /\ HasBearer(last.req.headers.authorization))
    => LET v == verifyToken(Credential(last.req.headers.authorization), last.at) IN
       /\ v.ok => DOMAIN v.value = {"userId", "email", "role", "iat", "exp", "iss", "aud"}
       /\ ~v.ok => v.error = InvalidToken
       /\ (IsVerify /\ ~v.ok)
            => last.res = Json(401, [success |-> FALSE,
                                     error |-> [code |-> "INVALID_TOKEN",
                                                message |-> "Token invalid or expired"]])

\* a forged token (signed with another key) was refused as INVALID_TOKEN
C11_Witness ==
    /\ IsVerify
    /\ HasBearer(last.req.headers.authorization)
    /\ last.req.headers.authorization.jwt # NoJwt
    /\ last.req.headers.authorization.jwt.key # JWT_SECRET
    /\ last.req.headers.authorization.jwt.exp > last.at
    /\ ErrorCode(last.res) = "INVALID_TOKEN"

(***************************************************************************)
(* C12.  Token validity is time-driven and monotone: at every clock value  *)
(* from a token's expiry on verifyToken fails INVALID_TOKEN, the gate      *)
(* refuses it, and no step of the system (register, login, changePassword, *)
(* updateProfile, time passing) makes a token rejected as expired valid    *)
(* again.                                                                  *)
(***************************************************************************)
IsMe == last.op = "GET /api/auth/me"

\* the tokens followed over time: the one the client holds and the one
\* issued at the start
WatchedTokens == HeldTokens \cup {StartToken}

Expired(token, now) == now >= token.jwt.exp

C12_ExpiryMonotone ==
    /\ [](\A t \in WatchedTokens :
            Expired(t, clock) => verifyToken(t, clock) = Throw(InvalidToken))
    /\ []((/\ IsMe
           /\ HasBearer(last.req.headers.authorization)
           /\ last.req.headers.authorization.jwt # NoJwt
           /\ Expired(last.req.headers.authorization, last.at))
          => (/\ ErrorCode(last.res) = "INVALID_TOKEN"
              /\ last.handlerRuns = 0
              /\ users = last.before))
    /\ [][\A t \in WatchedTokens :
            (Expired(t, clock) /\ ~verifyToken(t, clock).ok)
                => ~verifyToken(t, clock').ok]_vars

\* the token issued at the start, presented at its expiry to an account
\* that has logged in since, was refused
C12_Witness ==
    /\ IsMe
    /\ last.req.headers.authorization = BearerHeader(StartToken)
    /\ Expired(StartToken, last.at)
    /\ ErrorCode(last.res) = "INVALID_TOKEN"
    /\ Len(users) > 0
    /\ users[1].lastLoginAt >= 0

(***************************************************************************)
(* C13.  Credential stripping: no value returned by register, login,       *)
(* getCurrentUser, updateProfile or getUserByToken, and no response body   *)
(* the auth routes build from them, holds the passwordHash field: each     *)
(* returns the stored account with exactly that field removed.             *)
(***************************************************************************)
IsProfile == last.op = "PUT /api/auth/profile"
IsGetUserByToken == last.op = "AuthService.getUserByToken"

\* account is the stored row of its id, without passwordHash
Stripped(account) ==
    /\ "passwordHash" \notin DOMAIN account
    /\ account.id \in 1..Len(users)
    /\ DOMAIN account = (DOMAIN users[account.id]) \ {"passwordHash"}
    /\ \A f \in DOMAIN account : account[f] = users[account.id][f]

C13_NoPasswordHash ==
    /\ ((IsRegister \/ IsLogin) /\ last.res.body.success)
         => (/\ DOMAIN last.res.body = {"success", "data", "message"}
             /\ DOMAIN last.res.body.data = {"user", "token"}
             /\ Stripped(last.res.body.data.user)
             /\ "passwordHash" \notin DOMAIN last.res.body.data.token.jwt)
    /\ ((IsMe \/ IsProfile) /\ last.res.body.success)
         => (/\ DOMAIN last.res.body \subseteq {"success", "data", "message"}
             /\ Stripped(last.res.body.data))
    /\ ((IsRegister \/ IsLogin \/ IsMe \/ IsProfile) /\ ~last.res.body.success)
         => (/\ DOMAIN last.res.body = {"success", "error"}
             /\ DOMAIN last.res.body.error \subseteq {"code", "message", "field", "details"})
    /\ (IsGetUserByToken /\ last.returned.ok) => Stripped(last.returned.value)
    /\ (IsGetUserByToken /\ ~last.returned.ok)
         => DOMAIN last.returned.error = {"name", "message", "code", "field"}

\* a profile update whose body itself named passwordHash returned the
\* account without it
C13_Witness ==
    /\ IsProfile
    /\ last.res.body.success
    /\ "passwordHash" \in DOMAIN last.req.body
    /\ "passwordHash" \notin DOMAIN last.res.body.data
    /\ "passwordHash" \in DOMAIN users[last.res.body.data.id]

(***************************************************************************)
(* C14.  Email and username stay globally unique in the account store in   *)
(* every reachable state, also when register calls for the same email or   *)
(* username interleave so that both pass the existence checks before       *)
(* either writes.                                                          *)
(***************************************************************************)
C14_UniqueAccounts ==
    \A i, j \in 1..Len(users) :
        i # j => (/\ users[i].email # users[j].email
                  /\ users[i].username # users[j].username
                  /\ users[i].id # users[j].id)

\* two calls with the same email both passed the checks; one has written,
\* the other is about to
C14_Witness ==
    \E p, q \in Procs :
        /\ p # q
        /\ racing[p].pc = "done" /\ racing[p].wrote /\ racing[p].res.status = 201
        /\ racing[q].pc = "create"
        /\ racing[q].data.email = racing[p].data.email
        /\ EmailTaken(users, racing[q].data.email)

(***************************************************************************)
(* C15.  When two register calls with the same email or the same username  *)
(* race past the existence checks, at most one returns success with an     *)
(* account and a token; the other is refused by the store at write time,   *)
(* and its failure is no domain error (not EMAIL_EXISTS, not               *)
(* USERNAME_EXISTS) but the internal-failure response.                     *)
(***************************************************************************)
Collide(d, e) == d.email = e.email \/ d.username = e.username

C15_RaceLoser ==
    /\ \A p \in Procs :
        (racing[p].pc = "done" /\ racing[p].wrote /\ ~racing[p].res.body.success)
        => (/\ racing[p].res.status = 500
            /\ ErrorCode(racing[p].res) = "SERVER_ERROR"
            /\ "data" \notin DOMAIN racing[p].res.body
            /\ "field" \notin DOMAIN racing[p].res.body.error)
    /\ \A p, q \in Procs :
        (/\ p # q
         /\ racing[p].pc = "done" /\ racing[p].wrote
         /\ racing[q].pc = "done" /\ racing[q].wrote
         /\ Collide(racing[p].data, racing[q].data))
        => ~(racing[p].res.body.success /\ racing[q].res.body.success)

\* two calls with the same email raced: one got 201, the other the
\* internal-failure response
C15_Witness ==
    \E p, q \in Procs :
        /\ p # q
        /\ racing[p].pc = "done" /\ racing[p].wrote /\ racing[p].res.status = 201
        /\ racing[q].pc = "done" /\ racing[q].wrote /\ racing[q].res.status = 500
        /\ racing[q].data.email = racing[p].data.email
        /\ racing[q].data.username # racing[p].data.username

(***************************************************************************)
(* C16.  Role immutability: register persists every new account with role  *)
(* USER whatever the request body holds, and no operation of the Account   *)
(* Service (login, updateProfile, changePassword) changes an account's     *)
(* role: in every reachable state each account has its role of creation.   *)
(***************************************************************************)
C16_RoleImmutable ==
    /\ [](\A i \in 1..Len(users) : users[i].role = "USER")
    /\ []((IsRegister /\ last.res.body.success)
            => (/\ users[Len(users)].role = "USER"
                /\ last.res.body.data.user.role = "USER"
                /\ last.res.body.data.token.jwt.role = "USER"))
    /\ [][\A i \in 1..Len(users) :
            /\ i <= Len(users')
            /\ users'[i].role = users[i].role]_vars

\* a profile update whose body asked for role ADMIN succeeded, and the
\* account, registered with a body asking for ADMIN too, is still a USER
C16_Witness ==
    /\ IsProfile
    /\ last.res.body.success
    /\ "role" \in DOMAIN last.req.body
    /\ last.req.body.role = "ADMIN"
    /\ users[last.user.userId].role = "USER"

(***************************************************************************)
(* C17.  updateProfile changes only the fields supplied among displayName, *)
(* bio and avatar: an unsupplied one keeps its value, and email, username, *)
(* role, the stored credential, the verification flag and the last-login   *)
(* timestamp stay as they were even when the body holds keys of those      *)
(* names; no other account is touched.                                     *)
(***************************************************************************)
FrameFields ==
    {"id", "email", "username", "role", "passwordHash", "isEmailVerified", "lastLoginAt"}

C17_ProfileFrame ==
    (IsProfile /\ last.res.body.success)
    => LET id == last.user.userId
           body == last.req.body
           was == last.before[id]
           now == users[id]
       IN /\ Len(users) = Len(last.before)
          /\ \A k \in ProfileKeys :
                now[k] = IF k \in DOMAIN body THEN body[k] ELSE was[k]
          /\ \A f \in FrameFields : now[f] = was[f]
          /\ DOMAIN now = DOMAIN was
          /\ \A j \in 1..Len(users) : j # id => users[j] = last.before[j]

\* an update that supplied only a bio left the avatar set earlier in place
C17_Witness ==
    /\ IsProfile
    /\ last.res.body.success
    /\ DOMAIN last.req.body = {"bio"}
    /\ last.before[last.user.userId].avatar = AvatarUrl
    /\ last.before[last.user.userId].bio = NullStr
    /\ users[last.user.userId].avatar = AvatarUrl
    /\ users[last.user.userId].bio = BioHi

(***************************************************************************)
(* C18.  changePassword (of a well-formed input) fails USER_NOT_FOUND when *)
(* the account id resolves to no account, whatever the old password; fails *)
(* INVALID_PASSWORD when the account exists but oldPassword does not       *)
(* verify against the stored credential; and only otherwise replaces the   *)
(* stored credential with a hash of newPassword.                           *)
(***************************************************************************)
IsPassword == last.op = "PUT /api/auth/password"

C18_ChangePasswordErrors ==
    (/\ IsPassword
     /\ last.handlerRuns = 1
     /\ changePasswordSchema(last.req.body) = << >>)
    => LET id == last.user.userId
           exists == id \in 1..Len(last.before)
           oldOk == verifyPassword(last.req.body.oldPassword,
                                   last.before[id].passwordHash)
       IN /\ ~exists
               => (ErrorCode(last.res) = "USER_NOT_FOUND" /\ users = last.before)
          /\ (exists /\ ~oldOk)
               => (ErrorCode(last.res) = "INVALID_PASSWORD" /\ users = last.before)
          /\ (exists /\ oldOk)
               => (/\ last.res.body.success
                   /\ verifyPassword(last.req.body.newPassword, users[id].passwordHash)
                   /\ \A f \in (DOMAIN users[id]) \ {"passwordHash", "updatedAt"} :
                        users[id][f] = last.before[id][f]
                   /\ \A j \in 1..Len(users) : j # id => users[j] = last.before[j])
          /\ last.res.body.success => (exists /\ oldOk)

\* a change with a wrong old password for an existing account was refused
C18_Witness ==
    /\ IsPassword
    /\ last.handlerRuns = 1
    /\ last.user.userId \in 1..Len(last.before)
    /\ ErrorCode(last.res) = "INVALID_PASSWORD"
    /\ users = last.before

(***************************************************************************)
(* C19.  No partial application: whenever an Account Service operation     *)
(* ends in a domain error (EMAIL_EXISTS, USERNAME_EXISTS,                  *)
(* INVALID_CREDENTIALS, USER_NOT_FOUND, INVALID_PASSWORD) the account      *)
(* store is exactly as it was before the call and no token was issued.     *)
(***************************************************************************)
DomainErrors ==
    {"EMAIL_EXISTS", "USERNAME_EXISTS", "INVALID_CREDENTIALS", "USER_NOT_FOUND",
     "INVALID_PASSWORD"}

IsAccountCall == IsRegister \/ IsLogin \/ IsMe \/ IsProfile \/ IsPassword

C19_NoPartialApplication ==
    /\ (IsAccountCall /\ ErrorCode(last.res) \in DomainErrors)
         => (/\ users = last.before
             /\ Len(passwords) = Len(users)
             /\ DOMAIN last.res.body = {"success", "error"}
             /\ last.res.status = 400)
    /\ (/\ IsGetUserByToken
        /\ ~last.returned.ok
        /\ last.returned.error.code \in DomainErrors)
         => users = last.before

\* a login with a wrong password, made after the account's registration
\* instant, left the account as it was
C19_Witness ==
    /\ IsLogin
    /\ ErrorCode(last.res) = "INVALID_CREDENTIALS"
    /\ EmailTaken(last.before, last.req.body.email)
    /\ last.at > 0
    /\ users = last.before

(***************************************************************************)
(* C20.  Validation precedes storage: for register, login, updateProfile   *)
(* and changePassword an input that violates the operation's schema fails  *)
(* VALIDATION_ERROR, naming the offending fields, whatever the store       *)
(* holds: the store is unchanged, and a malformed registration never       *)
(* reports EMAIL_EXISTS or USERNAME_EXISTS, a malformed password change    *)
(* never USER_NOT_FOUND.                                                   *)
(***************************************************************************)
\* the issues the schema of the call in flight finds in its body
SchemaIssues ==
    IF IsRegister THEN registerSchema(last.req.body)
    ELSE IF IsLogin THEN loginSchema(last.req.body)
    ELSE IF IsProfile THEN updateProfileSchema(last.req.body)
    ELSE changePasswordSchema(last.req.body)

C20_ValidationFirst ==
    (/\ IsRegister \/ IsLogin \/ IsProfile \/ IsPassword
     /\ last.handlerRuns = 1
     /\ SchemaIssues # << >>)
    => (/\ ErrorCode(last.res) = "VALIDATION_ERROR"
        /\ last.res.status = 400
        /\ last.res.body.error.details = SchemaIssues
        /\ \A i \in 1..Len(last.res.body.error.details) :
              last.res.body.error.details[i].field \in DOMAIN last.req.body
        /\ users = last.before
        /\ "data" \notin DOMAIN last.res.body)

\* a registration with a malformed username and an email that is taken was
\* refused for its username, not for its email
C20_Witness ==
    /\ IsRegister
    /\ EmailTaken(last.before, last.req.body.email)
    /\ last.req.body.username = UserDash
    /\ ErrorCode(last.res) = "VALIDATION_ERROR"
    /\ Len(last.res.body.error.details) = 1
    /\ last.res.body.error.details[1].field = "username"
    /\ users = last.before

(***************************************************************************)
(* C21.  Every operation that mutates a stored account (login,             *)
(* updateProfile, changePassword) stamps the account's updatedAt with the  *)
(* time of the mutation: after each such call every account whose row      *)
(* changed carries the instant of the call in updatedAt.                   *)
(***************************************************************************)
Mutated == {i \in DOMAIN last.before : users[i] # last.before[i]}

C21_MutationStampsUpdatedAt ==
    (IsLogin \/ IsProfile \/ IsPassword)
    => \A i \in Mutated : users[i].updatedAt = last.at

(***************************************************************************)
(* C22.  A successful login changes only the lastLoginAt of the account    *)
(* with the given email: every other field of that account (email,         *)
(* username, displayName, role, passwordHash, bio, avatar and the rest)    *)
(* and every other account are as before; a failed login changes nothing.  *)
(***************************************************************************)
C22_LoginFrame ==
    IsLogin
    => IF last.res.body.success
       THEN \E id \in findByEmail(last.before, last.req.body.email) :
               users = [last.before EXCEPT ![id].lastLoginAt = last.at]
       ELSE users = last.before

\* the second of two accounts logged in: its lastLoginAt is set, the first
\* account is as it was
C22_Witness ==
    /\ IsLogin
    /\ last.res.body.success
    /\ Len(last.before) = 2
    /\ last.before[2].email = last.req.body.email
    /\ last.before[2].lastLoginAt = NullTime
    /\ users[2].lastLoginAt = last.at
    /\ users[1] = last.before[1]

(***************************************************************************)
(* C23.  getCurrentUser fails USER_NOT_FOUND exactly when the account id   *)
(* resolves to no stored account; otherwise it returns the fields that     *)
(* account has in the store at the time of the call, all but the           *)
(* credential; the store is the same after the call as before it.          *)
(***************************************************************************)
C23_GetCurrentUser ==
    (IsMe /\ last.handlerRuns = 1)
    => LET id == last.user.userId
           found == findById(last.before, id)
       IN /\ users = last.before
          /\ (ErrorCode(last.res) = "USER_NOT_FOUND") <=> (found = {})
          /\ found # {}
             => /\ last.res.body.success
                /\ DOMAIN last.res.body.data = DOMAIN users[id] \ {"passwordHash"}
                /\ \A f \in DOMAIN last.res.body.data :
                      last.res.body.data[f] = users[id][f]

\* a read after a profile update and a login: the answer carries the bio
\* and the last login the store holds now
C23_Witness ==
    /\ IsMe
    /\ last.handlerRuns = 1
    /\ last.res.body.success
    /\ last.res.body.data.bio = BioHi
    /\ last.res.body.data.lastLoginAt # NullTime
    /\ users[last.user.userId].bio = BioHi

(***************************************************************************)
(* C24.  Tokens are not revoked: right after a successful changePassword,  *)
(* updateProfile or logout of an account, a token issued to that account   *)
(* before the call and not yet expired is accepted by verifyToken and by   *)
(* the mandatory gate, whatever the call did to the store.  The tokens     *)
(* followed are the one the client was issued and one of the form          *)
(* verifyToken requires.                                                   *)
(***************************************************************************)
IsLogout == last.op = "POST /api/auth/logout"

GateAccepts(token, now) ==
    authenticateToken(Request(BearerHeader(token), Undefined), now).next = 1

C24_NoRevocation ==
    ((IsPassword \/ IsProfile \/ IsLogout) /\ last.handlerRuns = 1
        /\ last.res.body.success)
    => \A t \in WatchedTokens :
          (t.jwt.userId = last.user.userId /\ ~Expired(t, clock))
          => (verifyToken(t, clock).ok /\ GateAccepts(t, clock))

(***************************************************************************)
(* C25.  The Account Service never deletes an account: in every step of    *)
(* register, login, getCurrentUser, updateProfile and changePassword each  *)
(* stored account stays stored, with the id, the email and the username it *)
(* had, so the set of stored ids only grows and an id, email or username   *)
(* once stored stays bound to the same account.                            *)
(***************************************************************************)
StoredIds(store) == {store[i].id : i \in DOMAIN store}

Bound(store, id) ==
    LET i == CHOOSE j \in DOMAIN store : store[j].id = id
    IN [email |-> store[i].email, username |-> store[i].username]

C25_NeverDeletes ==
    [][/\ StoredIds(users) \subseteq StoredIds(users')
       /\ \A id \in StoredIds(users) : Bound(users', id) = Bound(users, id)
       /\ Cardinality(StoredIds(users')) = Len(users')]_vars

\* two accounts are stored, and the first has since changed its profile and
\* its password and has logged in
C25_Witness ==
    /\ Len(users) = 2
    /\ users[1].bio = BioHi
    /\ passwords[1].earlier # {}
    /\ users[1].lastLoginAt # NullTime
    /\ IsMe
    /\ StoredIds(users) = {1, 2}

(***************************************************************************)
(* C26.  Article write authorization.  As stated: updateArticle and        *)
(* deleteArticle change or remove an article only when the calling account *)
(* is stored and is the article's author or has the stored role ADMIN; for *)
(* any other caller they fail PERMISSION_DENIED and leave the article as   *)
(* it was; for a missing article they fail ARTICLE_NOT_FOUND.              *)
(***************************************************************************)
IsPutArticle == last.op = "PUT /api/articles/:id"
IsDeleteArticle == last.op = "DELETE /api/articles/:id"

\* the article the call names, as it was before the call
Target == findArticleById(last.articlesBefore, last.params.id)

\* the caller is stored and is the author of the article or a stored ADMIN
Entitled ==
    \E u \in DOMAIN last.before :
        /\ last.before[u].id = last.user.userId
        /\ (last.before[u].role = "ADMIN"
            \/ \A i \in Target : last.articlesBefore[i].authorId = last.user.userId)

Authorization ==
    /\ articles # last.articlesBefore => (Target # {} /\ Entitled)
    /\ Target = {} => ErrorCode(last.res) = "ARTICLE_NOT_FOUND"
    /\ (Target # {} /\ ~Entitled)
         => (ErrorCode(last.res) = "PERMISSION_DENIED" /\ articles = last.articlesBefore)

C26_WriteAuthorization ==
    ((IsPutArticle \/ IsDeleteArticle) /\ last.handlerRuns = 1) => Authorization

(***************************************************************************)
(* C26, amended.  The same for deleteArticle and for updateArticle with a  *)
(* body that passes updateArticleSchema; updateArticle with a body that    *)
(* violates the schema fails VALIDATION_ERROR before it looks for the      *)
(* article or the caller, and changes nothing.                             *)
(***************************************************************************)
C26_WriteAuthorizationOfValid ==
    ((IsPutArticle \/ IsDeleteArticle) /\ last.handlerRuns = 1)
    => IF IsPutArticle /\ updateArticleSchema(last.req.body) # << >>
       THEN ErrorCode(last.res) = "VALIDATION_ERROR" /\ articles = last.articlesBefore
       ELSE Authorization

\* the user, who is not the author, presented a token that says ADMIN and
\* was refused: the stored role decides
C26_Witness ==
    /\ IsPutArticle
    /\ last.handlerRuns = 1
    /\ last.user.role = "ADMIN"
    /\ Target # {}
    /\ ~Entitled
    /\ last.req.body = [title |-> TitleA1]
    /\ ErrorCode(last.res) = "PERMISSION_DENIED"
    /\ articles = last.articlesBefore

(***************************************************************************)
(* C27.  Slug uniqueness.  In every reachable state the stored articles    *)
(* have pairwise distinct slugs.  A createArticle or updateArticle call    *)
(* that runs alone gets from generateUniqueSlug a slug that no stored      *)
(* article other than the excluded one holds, so its write is never        *)
(* refused as a duplicate.  createArticle calls that run side by side can  *)
(* reach the write with the same slug; the write of the later one is then  *)
(* refused by the store, and it is refused only when a stored article      *)
(* holds the slug.                                                         *)
(***************************************************************************)
IsPostArticle == last.op = "POST /api/articles"

Duplicate == OtherError("PrismaClientKnownRequestError: P2002")

DistinctSlugs(store) ==
    \A i, j \in DOMAIN store : i # j => store[i].slug # store[j].slug

C27_SlugUniqueness ==
    /\ DistinctSlugs(articles)
    /\ ((IsPostArticle \/ IsPutArticle) /\ last.handlerRuns = 1)
       => /\ last.thrown # Duplicate
          /\ last.res.body.success
             => \A i \in DOMAIN last.articlesBefore :
                   last.articlesBefore[i].slug = last.res.body.data.slug
                   => last.articlesBefore[i].id = last.res.body.data.id
    /\ \A p \in Procs :
          (racing[p].pc = "done" /\ racing[p].thrown = Duplicate)
          => (/\ racing[p].res.status = 500
              /\ findArticleBySlug(articles, racing[p].uniqueSlug) # {})

\* with the slug "a" taken, two calls side by side both reached the write
\* with "a-1": the first wrote it, the second was refused by the store
C27_Witness ==
    \E p, q \in Procs :
        /\ p # q
        /\ racing[p].pc = "done" /\ racing[p].res.status = 201
        /\ racing[q].pc = "done" /\ racing[q].thrown = Duplicate
        /\ racing[p].uniqueSlug = <<"a", "-", "1">>
        /\ racing[q].uniqueSlug = racing[p].uniqueSlug
        /\ Len(articles) = 2

(***************************************************************************)
(* C28.  A login that runs side by side with a changePassword of the same  *)
(* account never undoes the password change: the write of login sets only  *)
(* lastLoginAt and the write of changePassword only passwordHash and       *)
(* updatedAt, so in every interleaving the stored credential is the hash   *)
(* of the password set last, and once a login and a changePassword have    *)
(* both completed the account carries the last-login time of the login and *)
(* the updated-at time of the password change (or of a later such call).   *)
(***************************************************************************)
Completed(p, op) == racing[p].pc = "done" /\ racing[p].op = op /\ racing[p].wrote

C28_LoginKeepsPasswordChange ==
    /\ \A i \in DOMAIN users :
          verifyPassword(passwords[i].current, users[i].passwordHash)
    /\ \A p, q \in Procs :
          (Completed(p, "login") /\ Completed(q, "changePassword"))
          => (/\ users[Member].lastLoginAt >= racing[p].at
              /\ users[Member].updatedAt >= racing[q].at)

\* a login read the account, the password was changed, time passed, and the
\* login wrote: the new credential is stored with the login's time
C28_Witness ==
    \E p, q \in Procs :
        /\ Completed(p, "login")
        /\ Completed(q, "changePassword")
        /\ racing[p].data.password = SeedPasswords[Member]
        /\ racing[q].data.newPassword = PwNew
        /\ racing[p].at > racing[q].at
        /\ users[Member].lastLoginAt = racing[p].at
        /\ verifyPassword(PwNew, users[Member].passwordHash)
        /\ ~verifyPassword(SeedPasswords[Member], users[Member].passwordHash)

(***************************************************************************)
(* C29.  View counting.  Every getArticleBySlug call that finds an article *)
(* adds exactly 1 to the stored viewCount of that article and changes no   *)
(* other field and no other article, so with n such calls completed, in    *)
(* any interleaving, the count is n; the article returned shows the count  *)
(* the call read, without its own increment; a call for an unknown slug    *)
(* and every getArticleById call change nothing.                           *)
(***************************************************************************)
Reads(id) ==
    {p \in Procs : /\ racing[p].pc = "done"
                   /\ racing[p].wrote
                   /\ racing[p].res.body.data.id = id}

Counted ==
    /\ \A i \in DOMAIN articles :
          articles[i].viewCount = Cardinality(Reads(articles[i].id))
    /\ \A p \in Procs :
          (racing[p].pc = "done" /\ racing[p].wrote)
          => \E i \in DOMAIN articles :
                /\ articles[i].id = racing[p].res.body.data.id
                /\ articles[i].slug = racing[p].slug
                /\ racing[p].res.body.data.viewCount < articles[i].viewCount

C29_ViewCounting ==
    /\ []Counted
    /\ [][(last = NoExchange /\ last'.op = "GET /api/articles/:id")
            => articles' = articles]_vars
    /\ [][\A p \in Procs :
            /\ (racing[p].pc = "view write" /\ racing'[p].pc = "done")
               => \E i \in DOMAIN articles :
                     /\ articles[i].id = racing[p].article.id
                     /\ articles' = [articles EXCEPT ![i].viewCount = @ + 1]
            /\ (racing[p] = Idle /\ racing'[p].pc = "done")
               => (/\ articles' = articles
                   /\ racing'[p].res = NotFound
                   /\ findArticleBySlug(articles, racing'[p].slug) = {})]_vars

\* two reads of one article ran side by side, both read the count 0, and
\* the stored count is 2; the other article has count 0
C29_Witness ==
    /\ \A p \in Procs : racing[p].pc = "done" /\ racing[p].wrote
    /\ \A p \in Procs : racing[p].res.body.data.viewCount = 0
    /\ \A p \in Procs : racing[p].slug = SlugA
    /\ Len(articles) = 2
    /\ articles[1].viewCount = MaxRacers
    /\ articles[2].viewCount = 0

(***************************************************************************)
(* C30: pagination arithmetic in getArticles.  For every list call with    *)
(* page >= 1 and pageSize in 1..100 (an absent one is its default, and the *)
(* sort key and order are of the schema) the response is a success that    *)
(* reports the number of matching articles as total and the least number   *)
(* of pages of pageSize that hold them as totalPages (ceil(total /         *)
(* pageSize)); its articles are those at the positions (page-1)*pageSize   *)
(* up to page*pageSize - 1 (counted from 0) of the matching articles in    *)
(* the requested order, so at most pageSize of them and none when page >   *)
(* totalPages; and over the store of the call the pages 1..totalPages hold *)
(* only matching articles and every matching article exactly once.         *)
(***************************************************************************)
IsList == last # NoExchange /\ last.op = "GET /api/articles"

PageOf(query) == IF "page" \in DOMAIN query THEN query.page ELSE PAGE_DEFAULT

PageSizeOf(query) ==
    IF "pageSize" \in DOMAIN query THEN query.pageSize ELSE PAGESIZE_DEFAULT

Paged(query) ==
    /\ PageOf(query) >= 1
    /\ PageSizeOf(query) \in 1..PAGESIZE_MAX
    /\ "sortBy" \in DOMAIN query => query.sortBy \in SortKeys
    /\ "sortOrder" \in DOMAIN query => query.sortOrder \in {"asc", "desc"}

C30_Pagination ==
    (IsList /\ Paged(last.query)) =>
        LET query == last.query
            store == last.articlesBefore
            page == PageOf(query)
            pageSize == PageSizeOf(query)
            matching == whereMatches(store, query)
            sorted == orderBy(store, matching,
                              IF "sortBy" \in DOMAIN query THEN query.sortBy
                              ELSE "createdAt",
                              IF "sortOrder" \in DOMAIN query THEN query.sortOrder
                              ELSE "desc")
            total == Cardinality(matching)
            data == last.res.body.data
            totalPages == data.pagination.totalPages
            first == (page - 1) * pageSize
            window == {k \in 0..(total - 1) : first <= k /\ k <= page * pageSize - 1}
            pageNo == [n \in 1..totalPages |->
                          getArticles(store, users, [page |-> n] @@ query).value.articles]
            places(i) == {<<n, j>> \in (1..totalPages) \X (1..pageSize) :
                             j \in DOMAIN pageNo[n] /\ pageNo[n][j].id = store[i].id}
        IN /\ last.res.status = 200
           /\ data.pagination.page = page
           /\ data.pagination.pageSize = pageSize
           /\ data.pagination.total = total
           /\ totalPages \in Nat
           /\ totalPages * pageSize >= total
           /\ totalPages > 0 => (totalPages - 1) * pageSize < total
           /\ Len(data.articles) = Cardinality(window)
           /\ \A k \in window :
                 data.articles[k - first + 1] = withAuthor(users, store[sorted[k + 1]])
           /\ Len(data.articles) <= pageSize
           /\ page > totalPages => data.articles = << >>
           /\ \A i \in matching : Cardinality(places(i)) = 1
           /\ \A n \in 1..totalPages : \A j \in DOMAIN pageNo[n] :
                 \E i \in matching : pageNo[n][j] = withAuthor(users, store[i])

\* the second page of one article each, of two matching articles
C30_Witness ==
    /\ IsList
    /\ PageOf(last.query) = 2
    /\ PageSizeOf(last.query) = 1
    /\ last.res.status = 200
    /\ last.res.body.data.pagination.totalPages = 2
    /\ Len(last.res.body.data.articles) = 1

====
